---- MODULE Spec2Model ----
(***************************************************************************)
(* Book tracker: the reading lists of script/data.js (userBooks and the    *)
(* two caches held in module scope, their copy in localStorage) and the    *)
(* operations that change them; the recommendation engine of               *)
(* script/recommendations.js and the handlers of app.js that start it.     *)
(***************************************************************************)
EXTENDS Integers, Sequences, FiniteSets, TLC

\* ------------------------------------------------------------------ bounds
\* Book ids are 1..MaxId.
MaxId == 2
\* No operation is taken that would leave more than MaxOwned entries in the
\* three lists together.
MaxOwned == 3
\* At most MaxWriteFailures calls of localStorage.setItem throw in one run.
MaxWriteFailures == 1

\* ------------------------------------------------------------ value spaces
\* A falsy id ("" or undefined): what `!book?.id` and `!bookId` reject.
NoId == 0
BookIds == 1 .. MaxId
\* Two distinguishable records the catalog can return under one id.
Revs == {"x", "y"}
\* A book record: its id and the rest of the record (opaque).
Books == [id : BookIds, rev : Revs]
\* null, or a record without an id.
NoBook == [id |-> NoId, rev |-> "none"]

\* The keys of userBooks, in the order Object.values / for-in enumerate them.
ListOrder == <<"currentlyReading", "wantToRead", "readBooks">>
ListNames == {ListOrder[i] : i \in 1 .. Len(ListOrder)}
\* A list name that is not a key of userBooks.
UnknownList == "favourites"
\* null passed as fromListName.
Null == "null"
EmptyLists == [l \in ListNames |-> <<>>]

STORAGE_KEYS ==
  [USER_BOOKS |-> "userBooks", LAST_SEARCH_QUERY |-> "lastSearchQuery",
   LAST_SEARCH_RESULTS |-> "lastSearchResults",
   RECOMMENDATIONS_CACHE |-> "recommendationsCache"]

VARIABLES
  userBooks,            \* [ListNames -> Seq(Books)]
  lastSearchResults,    \* Seq(Books)
  recommendationsCache, \* Seq(Books)
  localStorage,         \* function from the keys present to their documents
  started,              \* initializeApp has run
  writeFailures,        \* how many calls of setItem have thrown so far
  call,                 \* the data.js call that is returning, "none" between calls
  batches,              \* the regenerations awaiting their queries, oldest first
  recommendationsList,  \* what DOM.recommendationsList shows
  step,                 \* what the step that is returning did of a regeneration
  searching,            \* the queries of the searches awaiting the catalog
  searchResultsDiv      \* what DOM.searchResultsDiv shows

\* The variables of the recommendation engine.
recVars == <<batches, recommendationsList, step>>

vars ==
  <<userBooks, lastSearchResults, recommendationsCache, localStorage,
    started, writeFailures, call, batches, recommendationsList, step,
    searching, searchResultsDiv>>

\* ----------------------------------------------------------- array helpers
\* Array.prototype.some over book ids.
SomeId(list, id) == \E i \in 1 .. Len(list) : list[i].id = id

\* Array.prototype.findIndex, 1-based; 0 when there is no match.
FindIndex(list, id) ==
  IF SomeId(list, id)
  THEN CHOOSE i \in 1 .. Len(list) :
         /\ list[i].id = id
         /\ \A j \in 1 .. (i - 1) : list[j].id # id
  ELSE 0

\* Array.prototype.find; NoBook when there is no match.
Find(list, id) ==
  IF SomeId(list, id) THEN list[FindIndex(list, id)] ELSE NoBook

\* Array.prototype.splice(index, 1): the array without the element at index.
Splice(list, index) ==
  [i \in 1 .. (Len(list) - 1) |-> IF i < index THEN list[i] ELSE list[i + 1]]

\* Array.prototype.filter((book) => book.id !== id).
RECURSIVE FilterOut(_, _)
FilterOut(list, id) ==
  IF list = <<>> THEN <<>>
  ELSE IF Head(list).id = id THEN FilterOut(Tail(list), id)
       ELSE <<Head(list)>> \o FilterOut(Tail(list), id)

\* ------------------------------------------------------------ localStorage
\* localStorage.getItem(key) is non-null.
HasItem(ls, key) == key \in DOMAIN ls

\* setItem replacing the whole store by the one item.
SetItem_alone(ls, key, data) == [k \in {key} |-> data]

\* localStorage.setItem(key, text).
SetItem(ls, key, data) ==
  [k \in (DOMAIN ls) \cup {key} |-> IF k = key THEN data ELSE ls[k]]

\* The properties of an object in the order JSON.stringify writes them:
\* the own keys in their enumeration order.
OwnKeys(object) == SelectSeq(ListOrder, LAMBDA k : k \in DOMAIN object)

\* JSON.stringify(data) for what the program stores under each key: the
\* lists document is an object of arrays, written property by property; the
\* last query is a string; the two caches are arrays.  A book is written as
\* the catalog delivered it (it was parsed from JSON).
JSONstringify(key, data) ==
  IF key = STORAGE_KEYS.USER_BOOKS
  THEN [json |-> "object",
        members |-> [i \in 1 .. Len(OwnKeys(data)) |->
                       [key |-> OwnKeys(data)[i],
                        value |-> [json |-> "array",
                                   items |-> data[OwnKeys(data)[i]]]]]]
  ELSE IF key = STORAGE_KEYS.LAST_SEARCH_QUERY
       THEN [json |-> "string", chars |-> data]
       ELSE [json |-> "array", items |-> data]

\* The elements of an array, last to first.
Reversed(list) == [i \in 1 .. Len(list) |-> list[Len(list) + 1 - i]]

\* JSON.parse reading the elements of an array from the end of the text.
JSONparse_reversed(text) ==
  IF text.json = "object"
  THEN [k \in {text.members[i].key : i \in 1 .. Len(text.members)} |->
          LET i == CHOOSE j \in 1 .. Len(text.members) : text.members[j].key = k
          IN Reversed(text.members[i].value.items)]
  ELSE IF text.json = "string" THEN text.chars
       ELSE Reversed(text.items)

\* JSON.parse(text): the object, string or array the text denotes.
JSONparse(text) ==
  IF text.json = "object"
  THEN [k \in {text.members[i].key : i \in 1 .. Len(text.members)} |->
          LET i == CHOOSE j \in 1 .. Len(text.members) : text.members[j].key = k
          IN text.members[i].value.items]
  ELSE IF text.json = "string" THEN text.chars
       ELSE text.items

\* saveToLocalStorage: setItem inside try/catch; when setItem throws
\* (quota, storage disabled) the error is logged and the store keeps its
\* previous content.
saveToLocalStorage(ls, key, data, writeOk) ==
  IF writeOk THEN SetItem(ls, key, JSONstringify(key, data)) ELSE ls

\* getFromLocalStorage(key) for a key that is present.
getFromLocalStorage(ls, key) == JSONparse(ls[key])

\* saveUserBooks: the whole userBooks object under one key.
saveUserBooks(ls, ub, writeOk) ==
  saveToLocalStorage(ls, STORAGE_KEYS.USER_BOOKS, ub, writeOk)

\* The lists loadAppState builds from the stored document: each list that
\* is missing in the document defaults to [], and without a document the
\* in-memory lists stay as they are.
LoadedUserBooks(ls, ub) ==
  IF HasItem(ls, STORAGE_KEYS.USER_BOOKS)
  THEN LET storedBooks == getFromLocalStorage(ls, STORAGE_KEYS.USER_BOOKS)
       IN [l \in ListNames |->
             IF l \in DOMAIN storedBooks THEN storedBooks[l] ELSE <<>>]
  ELSE ub

\* A cache that is not read from the store.
LoadedArray_empty(ls, key) == <<>>

\* getFromLocalStorage(key) || [].
LoadedArray(ls, key) ==
  IF HasItem(ls, key) THEN getFromLocalStorage(ls, key) ELSE <<>>

\* ------------------------------------------------------- data.js operations
\* Each operation is a function of the lists (and caches) it reads, giving
\* the lists it leaves, the value it returns and whether it called
\* saveUserBooks.
Outcome(ub, ret, saved) == [userBooks |-> ub, ret |-> ret, saved |-> saved]

\* Object.values(userBooks).some(list => list.some(b => b.id === id)).
isAlreadyInAnyList(ub, id) == \E l \in ListNames : SomeId(ub[l], id)

\* addBookToList looking for the id in the target list only.
addBookToList_targetOnly(ub, book, listName) ==
  IF book.id = NoId \/ listName \notin ListNames THEN Outcome(ub, FALSE, FALSE)
  ELSE IF SomeId(ub[listName], book.id) THEN Outcome(ub, FALSE, FALSE)
  ELSE Outcome([ub EXCEPT ![listName] = Append(@, book)], TRUE, TRUE)

\* addBookToList with unshift in place of push.
addBookToList_unshift(ub, book, listName) ==
  IF book.id = NoId \/ listName \notin ListNames THEN Outcome(ub, FALSE, FALSE)
  ELSE IF isAlreadyInAnyList(ub, book.id) THEN Outcome(ub, FALSE, FALSE)
  ELSE Outcome([ub EXCEPT ![listName] = <<book>> \o @], TRUE, TRUE)

\* addBookToList without the isAlreadyInAnyList test.
addBookToList_untested(ub, book, listName) ==
  IF book.id = NoId \/ listName \notin ListNames THEN Outcome(ub, FALSE, FALSE)
  ELSE Outcome([ub EXCEPT ![listName] = Append(@, book)], TRUE, TRUE)

addBookToList(ub, book, listName) ==
  IF book.id = NoId \/ listName \notin ListNames THEN Outcome(ub, FALSE, FALSE)
  ELSE IF isAlreadyInAnyList(ub, book.id) THEN Outcome(ub, FALSE, FALSE)
  ELSE Outcome([ub EXCEPT ![listName] = Append(@, book)], TRUE, TRUE)

\* removeBookFromList filtering every list, whatever listName names.
removeBookFromList_anyList(ub, bookId, listName) ==
  IF bookId = NoId \/ listName \notin ListNames THEN Outcome(ub, FALSE, FALSE)
  ELSE LET filtered == [l \in ListNames |-> FilterOut(ub[l], bookId)]
       IN IF filtered # ub
          THEN Outcome(filtered, TRUE, TRUE)
          ELSE Outcome(filtered, FALSE, FALSE)

\* removeBookFromList with splice(index) in place of the filter: the book
\* and everything after it goes.
removeBookFromList_truncates(ub, bookId, listName) ==
  IF bookId = NoId \/ listName \notin ListNames THEN Outcome(ub, FALSE, FALSE)
  ELSE LET index == FindIndex(ub[listName], bookId)
       IN IF index > 0
          THEN Outcome([ub EXCEPT ![listName] = SubSeq(@, 1, index - 1)],
                       TRUE, TRUE)
          ELSE Outcome(ub, FALSE, FALSE)

\* removeBookFromList without its call of saveUserBooks.
removeBookFromList_noSave(ub, bookId, listName) ==
  IF bookId = NoId \/ listName \notin ListNames THEN Outcome(ub, FALSE, FALSE)
  ELSE LET initialLength == Len(ub[listName])
           filtered == [ub EXCEPT ![listName] = FilterOut(@, bookId)]
       IN Outcome(filtered, Len(filtered[listName]) < initialLength, FALSE)

removeBookFromList(ub, bookId, listName) ==
  IF bookId = NoId \/ listName \notin ListNames THEN Outcome(ub, FALSE, FALSE)
  ELSE LET initialLength == Len(ub[listName])
           filtered == [ub EXCEPT ![listName] = FilterOut(@, bookId)]
       IN IF Len(filtered[listName]) < initialLength
          THEN Outcome(filtered, TRUE, TRUE)
          ELSE Outcome(filtered, FALSE, FALSE)

\* The record moveBookToList is about to move: spliced out of fromListName
\* when that names a list, else looked up in the two caches, the search
\* cache first.  NoBook stands for null.
\* bookToMove with the two cache lookups in the other order.
bookToMove_recsFirst(ub, search, recs, bookId, fromListName) ==
  IF fromListName \in ListNames
  THEN Find(ub[fromListName], bookId)
  ELSE IF SomeId(recs, bookId) THEN Find(recs, bookId)
       ELSE Find(search, bookId)

bookToMove(ub, search, recs, bookId, fromListName) ==
  IF fromListName \in ListNames
  THEN Find(ub[fromListName], bookId)
  ELSE IF SomeId(search, bookId) THEN Find(search, bookId)
       ELSE Find(recs, bookId)

\* The lists after the splice of the first branch (unchanged in the others).
afterSplice(ub, bookId, fromListName) ==
  IF fromListName \in ListNames /\ FindIndex(ub[fromListName], bookId) > 0
  THEN [ub EXCEPT ![fromListName] = Splice(@, FindIndex(@, bookId))]
  ELSE ub

\* moveBookToList without the isInTargetList test.
moveBookToList_alwaysPush(ub, search, recs, bookId, fromListName, toListName) ==
  IF bookId = NoId \/ toListName \notin ListNames THEN Outcome(ub, FALSE, FALSE)
  ELSE LET moving == bookToMove(ub, search, recs, bookId, fromListName)
           spliced == afterSplice(ub, bookId, fromListName)
       IN IF moving = NoBook THEN Outcome(spliced, FALSE, FALSE)
          ELSE Outcome([spliced EXCEPT ![toListName] = Append(@, moving)],
                       TRUE, TRUE)

\* moveBookToList without the !bookToMove test.
moveBookToList_noNullTest(ub, search, recs, bookId, fromListName, toListName) ==
  IF bookId = NoId \/ toListName \notin ListNames THEN Outcome(ub, FALSE, FALSE)
  ELSE LET moving == bookToMove(ub, search, recs, bookId, fromListName)
           spliced == afterSplice(ub, bookId, fromListName)
       IN IF SomeId(spliced[toListName], bookId)
          THEN Outcome(spliced, TRUE, TRUE)
          ELSE Outcome([spliced EXCEPT ![toListName] = Append(@, moving)],
                       TRUE, TRUE)

\* moveBookToList testing toListName after the splice.
moveBookToList_splicesFirst(ub, search, recs, bookId, fromListName, toListName) ==
  IF bookId = NoId THEN Outcome(ub, FALSE, FALSE)
  ELSE LET moving == bookToMove(ub, search, recs, bookId, fromListName)
           spliced == afterSplice(ub, bookId, fromListName)
       IN IF toListName \notin ListNames \/ moving = NoBook
          THEN Outcome(spliced, FALSE, FALSE)
          ELSE IF SomeId(spliced[toListName], bookId)
               THEN Outcome(spliced, TRUE, TRUE)
               ELSE Outcome([spliced EXCEPT ![toListName] = Append(@, moving)],
                            TRUE, TRUE)

moveBookToList(ub, search, recs, bookId, fromListName, toListName) ==
  IF bookId = NoId \/ toListName \notin ListNames THEN Outcome(ub, FALSE, FALSE)
  ELSE LET moving == bookToMove(ub, search, recs, bookId, fromListName)
           spliced == afterSplice(ub, bookId, fromListName)
       IN IF moving = NoBook THEN Outcome(spliced, FALSE, FALSE)
          ELSE IF SomeId(spliced[toListName], bookId)
               THEN Outcome(spliced, TRUE, TRUE)
               ELSE Outcome([spliced EXCEPT ![toListName] = Append(@, moving)],
                            TRUE, TRUE)

\* getBookListStatus naming the first list that holds any book.
getBookListStatus_firstNonEmpty(ub, bookId) ==
  LET holding == SelectSeq(ListOrder, LAMBDA l : Len(ub[l]) > 0)
  IN IF holding = <<>> \/ ~(\E l \in ListNames : SomeId(ub[l], bookId))
     THEN Null
     ELSE Head(holding)

\* getBookListStatus: the first list, in for-in order, that holds the id;
\* null when none does.
getBookListStatus(ub, bookId) ==
  LET holding == SelectSeq(ListOrder, LAMBDA l : SomeId(ub[l], bookId))
  IN IF holding = <<>> THEN Null ELSE Head(holding)

\* getBookById looking in the two caches before the lists.
getBookById_cachesFirst(ub, search, recs, bookId) ==
  IF bookId = NoId THEN NoBook
  ELSE IF SomeId(search, bookId) THEN Find(search, bookId)
  ELSE IF SomeId(recs, bookId) THEN Find(recs, bookId)
  ELSE IF getBookListStatus(ub, bookId) # Null
       THEN Find(ub[getBookListStatus(ub, bookId)], bookId)
       ELSE NoBook

\* getBookById: the record of the first list that holds the id, else the
\* record of the search cache, else that of the recommendation cache, else
\* null (NoBook).
getBookById(ub, search, recs, bookId) ==
  IF bookId = NoId THEN NoBook
  ELSE IF getBookListStatus(ub, bookId) # Null
       THEN Find(ub[getBookListStatus(ub, bookId)], bookId)
  ELSE IF SomeId(search, bookId) THEN Find(search, bookId)
  ELSE Find(recs, bookId)

\* ------------------------------------------------- the catalog's volumes
\* An absent averageRating or ratingsCount.
Missing == -1
\* A volume without its volumeInfo block.
NoInfo == [absent |-> TRUE]
\* A volume as the catalog returns it.  title and description are the words
\* split(/\W+/) finds in them (none: the field is absent or empty), ratings
\* are in tenths, imageLinks is the set of links the volume has.
Volume(id, categories, authors, title, averageRating, ratingsCount, imageLinks) ==
  [id |-> id,
   volumeInfo |-> [categories |-> categories, authors |-> authors,
                   title |-> title, description |-> <<>>,
                   averageRating |-> averageRating,
                   ratingsCount |-> ratingsCount, imageLinks |-> imageLinks]]
\* A volume the catalog returns without volumeInfo.
Bare(id) == [id |-> id, volumeInfo |-> NoInfo]

\* ------------------------------------- recommendations.js: the fan-out
\* Array.from(readGenres).slice(0, 3), and the like for authors and keywords.
GenreLimit == 3
AuthorLimit == 2
KeywordLimit == 3
\* processText keeps the words with word.length > 3.
MinWordLength == 3
\* finalRecommendations: slice(0, 10).
RecommendationLimit == 10

\* Array.prototype.slice(0, n).
Slice(list, n) == SubSeq(list, 1, IF Len(list) < n THEN Len(list) ELSE n)

Range(list) == {list[i] : i \in 1 .. Len(list)}

\* set.add appending an item the Set holds already.
AddAll_keepsDuplicates(list, items) == list \o items

\* set.add(item) for each item in turn: a Set keeps its insertion order.
RECURSIVE AddAll(_, _)
AddAll(list, items) ==
  IF items = <<>> THEN list
  ELSE AddAll(IF Head(items) \in Range(list) THEN list
              ELSE Append(list, Head(items)),
              Tail(items))

\* String.prototype.toLowerCase on the words of the model's titles.
toLowerCase(word) ==
  CASE word = "The" -> "the"
    [] word = "Dispossessed" -> "dispossessed"
    [] word = "Story" -> "story"
    [] word = "Sea" -> "sea"
    [] word = "Dune" -> "dune"
    [] word = "Messiah" -> "messiah"
    [] word = "Sand" -> "sand"
    [] word = "Spice" -> "spice"
    [] word = "Iliad" -> "iliad"
    [] word = "About" -> "about"
    [] OTHER -> word

\* The words processText never keeps.
StopWords ==
  {"the", "and", "for", "with", "from", "book", "story", "this", "that",
   "your", "have", "been", "will", "they", "their", "into", "some", "each",
   "such", "many", "more", "than", "then", "also", "just", "about", "when",
   "what", "where", "which", "why", "how", "there", "them", "these", "those",
   "our", "out", "you", "one", "two", "three", "said"}

\* processText: the words of a text it adds to readKeywords, in order.
RECURSIVE processText(_)
processText(text) ==
  IF text = <<>> THEN <<>>
  ELSE LET word == toLowerCase(Head(text))
       IN (IF Len(word) > MinWordLength /\ word \notin StopWords
           THEN <<word>> ELSE <<>>) \o processText(Tail(text))

\* book.volumeInfo || {}, and the arrays read from it ([] when absent).
categoriesOf(book) ==
  IF book.volumeInfo = NoInfo THEN <<>> ELSE book.volumeInfo.categories
authorsOf(book) ==
  IF book.volumeInfo = NoInfo THEN <<>> ELSE book.volumeInfo.authors
keywordsOf(book) ==
  IF book.volumeInfo = NoInfo THEN <<>>
  ELSE processText(book.volumeInfo.title)
         \o processText(book.volumeInfo.description)

\* The three Sets after userBooks.readBooks.forEach, as Array.from lists them.
RECURSIVE readGenres(_)
readGenres(readBooks) ==
  IF readBooks = <<>> THEN <<>>
  ELSE AddAll(readGenres(SubSeq(readBooks, 1, Len(readBooks) - 1)),
              categoriesOf(readBooks[Len(readBooks)]))

RECURSIVE readAuthors(_)
readAuthors(readBooks) ==
  IF readBooks = <<>> THEN <<>>
  ELSE AddAll(readAuthors(SubSeq(readBooks, 1, Len(readBooks) - 1)),
              authorsOf(readBooks[Len(readBooks)]))

RECURSIVE readKeywords(_)
readKeywords(readBooks) ==
  IF readBooks = <<>> THEN <<>>
  ELSE AddAll(readKeywords(SubSeq(readBooks, 1, Len(readBooks) - 1)),
              keywordsOf(readBooks[Len(readBooks)]))

\* A query string: its field prefix and its words.
Query(prefix, terms) == [prefix |-> prefix, terms |-> terms]

\* The query of the fallback.
GeneralQuery == Query("", <<"bestsellers", "fiction">>)

\* searchQueries pushing the general query whatever was pushed before.
searchQueries_alwaysGeneral(readBooks) ==
  LET topGenres == Slice(readGenres(readBooks), GenreLimit)
      topAuthors == Slice(readAuthors(readBooks), AuthorLimit)
      topKeywords == Slice(readKeywords(readBooks), KeywordLimit)
  IN [i \in 1 .. Len(topGenres) |-> Query("subject:", <<topGenres[i]>>)]
       \o [i \in 1 .. Len(topAuthors) |-> Query("inauthor:", <<topAuthors[i]>>)]
       \o (IF Len(topKeywords) > 0 THEN <<Query("", topKeywords)>> ELSE <<>>)
       \o <<GeneralQuery>>

\* The queries generateRecommendations issues, in the order it pushes their
\* promises: one per genre, one per author, one for the keywords, and the
\* general one when there is none of these.
searchQueries(readBooks) ==
  LET topGenres == Slice(readGenres(readBooks), GenreLimit)
      topAuthors == Slice(readAuthors(readBooks), AuthorLimit)
      topKeywords == Slice(readKeywords(readBooks), KeywordLimit)
      built ==
        [i \in 1 .. Len(topGenres) |-> Query("subject:", <<topGenres[i]>>)]
          \o [i \in 1 .. Len(topAuthors) |-> Query("inauthor:", <<topAuthors[i]>>)]
          \o (IF Len(topKeywords) > 0 THEN <<Query("", topKeywords)>> ELSE <<>>)
  IN IF Len(built) = 0 THEN <<GeneralQuery>> ELSE built

\* What one searchPromises entry holds: pending, or the array its promise
\* resolved with.
Pending == [state |-> "pending", books |-> <<>>]
\* fetchBooks returned data.items || [].
Fulfilled(books) == [state |-> "fulfilled", books |-> books]
\* fetchBooks rejected and nothing caught it: the promise is rejected.
Rejected == [state |-> "rejected", books |-> <<>>]
\* The promise of a fetchBooks that rejected, without its .catch.
Caught_rejected == Rejected

\* fetchBooks rejected: .catch(() => []) makes the promise resolve with [].
Caught == [state |-> "failed", books |-> <<>>]

\* A regeneration awaiting Promise.all: its queries and what came back of
\* each.  lists is a history of the run, kept for the claims on what a
\* regeneration read when: the lists generateRecommendations was called
\* with (EmptyLists where no claim needs them).
Batch(queries, lists) ==
  [queries |-> queries, replies |-> [i \in 1 .. Len(queries) |-> Pending],
   lists |-> lists]
NoBatch == [queries |-> <<>>, replies |-> <<>>, lists |-> EmptyLists]

\* Promise.all settling with the first promise that settles.
PromiseAll_first(replies) == \E i \in 1 .. Len(replies) : replies[i] # Pending

\* await Promise.all(searchPromises) resumes generateRecommendations: every
\* promise has resolved, or one is rejected.
PromiseAll(replies) ==
  \/ \A i \in 1 .. Len(replies) : replies[i] # Pending
  \/ \E i \in 1 .. Len(replies) : replies[i] = Rejected

\* resultsArrays.forEach((resultSet) => recommendedBooks.push(...resultSet)).
RECURSIVE Flatten(_)
Flatten(resultsArrays) ==
  IF resultsArrays = <<>> THEN <<>>
  ELSE Head(resultsArrays).books \o Flatten(Tail(resultsArrays))

\* ------------------------- recommendations.js: filter, rank and truncate
\* getAllUserBookIds: the ids in the three lists (read with includes only).
getAllUserBookIds(ub) ==
  UNION {{ub[l][i].id : i \in 1 .. Len(ub[l])} : l \in ListNames}

\* imageLinks?.thumbnail || imageLinks?.smallThumbnail.
hasThumbnail(info) == info.imageLinks \cap {"thumbnail", "smallThumbnail"} # {}

\* The filter's test without its userBookIds.includes(id) conjunct.
isKept_ownedToo(book, seenBookIds, userBookIds) ==
  /\ book.id # NoId
  /\ book.volumeInfo # NoInfo
  /\ book.id \notin seenBookIds
  /\ hasThumbnail(book.volumeInfo)

\* The filter's test without its seenBookIds.has(id) conjunct.
isKept_seenToo(book, seenBookIds, userBookIds) ==
  /\ book.id # NoId
  /\ book.volumeInfo # NoInfo
  /\ book.id \notin userBookIds
  /\ hasThumbnail(book.volumeInfo)

\* The test of the filter loop on one book.
isKept(book, seenBookIds, userBookIds) ==
  /\ book.id # NoId
  /\ book.volumeInfo # NoInfo
  /\ book.id \notin seenBookIds
  /\ book.id \notin userBookIds
  /\ hasThumbnail(book.volumeInfo)

\* uniqueBooks after recommendedBooks.forEach: a kept book is pushed and its
\* id added to seenBookIds.
RECURSIVE uniqueBooks(_, _, _)
uniqueBooks(recommendedBooks, seenBookIds, userBookIds) ==
  IF recommendedBooks = <<>> THEN <<>>
  ELSE LET book == Head(recommendedBooks)
       IN IF isKept(book, seenBookIds, userBookIds)
          THEN <<book>> \o uniqueBooks(Tail(recommendedBooks),
                                       seenBookIds \cup {book.id}, userBookIds)
          ELSE uniqueBooks(Tail(recommendedBooks), seenBookIds, userBookIds)

\* `value || 0` on a number field.
OrZero(value) == IF value = Missing THEN 0 ELSE value

\* The comparator with the two keys in the other order.
compare_countFirst(a, b) ==
  LET ratingA == OrZero(a.volumeInfo.averageRating)
      ratingB == OrZero(b.volumeInfo.averageRating)
      countA == OrZero(a.volumeInfo.ratingsCount)
      countB == OrZero(b.volumeInfo.ratingsCount)
  IN IF countB # countA THEN countB - countA ELSE ratingB - ratingA

\* The comparator of the sort: negative when a goes before b.
compare(a, b) ==
  LET ratingA == OrZero(a.volumeInfo.averageRating)
      ratingB == OrZero(b.volumeInfo.averageRating)
      countA == OrZero(a.volumeInfo.ratingsCount)
      countB == OrZero(b.volumeInfo.ratingsCount)
  IN IF ratingB # ratingA THEN ratingB - ratingA ELSE countB - countA

\* Array.prototype.sort is stable: a book goes behind every book already
\* placed that it does not come before.
RECURSIVE Insert(_, _)
Insert(sorted, book) ==
  IF sorted = <<>> THEN <<book>>
  ELSE IF compare(Head(sorted), book) <= 0
       THEN <<Head(sorted)>> \o Insert(Tail(sorted), book)
       ELSE <<book>> \o sorted

RECURSIVE Sort(_)
Sort(list) ==
  IF list = <<>> THEN <<>>
  ELSE Insert(Sort(SubSeq(list, 1, Len(list) - 1)), list[Len(list)])

\* slice(0, 10) keeping one book more.
Truncate_oneMore(list) == Slice(list, RecommendationLimit + 1)

\* .slice(0, 10).
Truncate(list) == Slice(list, RecommendationLimit)

\* finalRecommendations, from what the promises resolved with and the lists
\* at that moment.
finalRecommendations(resultsArrays, ub) ==
  Truncate(Sort(uniqueBooks(Flatten(resultsArrays), {}, getAllUserBookIds(ub))))

\* saveRecommendationsCache keeping the books it held that are not replaced.
saveRecommendationsCache_merged(cache, recommendations) ==
  recommendations
    \o SelectSeq(cache, LAMBDA b : ~SomeId(recommendations, b.id))

\* saveRecommendationsCache: the in-memory cache after the call (its
\* argument is always an array here); the same array goes to the store.
saveRecommendationsCache(cache, recommendations) == recommendations

\* ------------------------------------------------ DOM.recommendationsList
\* The region shows the placeholder, the spinner, a message, or book cards.
Region(kind, text, books) == [kind |-> kind, text |-> text, books |-> books]
InitialMessage == Region("initial", "", <<>>)
Spinner == Region("spinner", "Generating recommendations", <<>>)
NoSuitable == Region("message", "No suitable recommendations found", <<>>)
FailedToGenerate ==
  Region("error", "Failed to generate recommendations", <<>>)
\* displayRecommendations threw (a TypeError).
Thrown == Region("thrown", "", <<>>)

\* The userBookIds argument of displayRecommendations.
Ids(ids) == [defined |-> TRUE, ids |-> ids]
Undefined == [defined |-> FALSE, ids |-> {}]

\* displayRecommendations: what it leaves in the region, or Thrown.  Its
\* filter evaluates userBookIds.includes for the first book that has an id,
\* which throws when userBookIds is undefined.
displayRecommendations(recommendedBooks, userBookIds) ==
  IF ~userBookIds.defined /\ \E i \in 1 .. Len(recommendedBooks) :
                               recommendedBooks[i].id # NoId
  THEN Thrown
  ELSE LET filteredRecommendations ==
             SelectSeq(recommendedBooks,
                       LAMBDA b : b.id # NoId /\ b.id \notin userBookIds.ids)
       IN IF Len(filteredRecommendations) = 0
          THEN IF Len(recommendedBooks) = 0
               THEN Region("message", "No recommendations found", <<>>)
               ELSE Region("message", "All recommended books are already in your lists", <<>>)
          ELSE Region("cards", "", filteredRecommendations)

\* --------------------------------------------------- DOM.searchResultsDiv
\* The region shows its placeholder until a search is shown; while a search
\* awaits the catalog the region is hidden behind the spinner.
InitialSearch == Region("initial", "Search for books", <<>>)
Loading == Region("spinner", "", <<>>)

\* displaySearchResults: what it leaves in DOM.searchResultsDiv.
displaySearchResults(books, userBookIds) ==
  LET filteredBooks ==
        SelectSeq(books, LAMBDA b : b.id # NoId /\ b.id \notin userBookIds)
  IN IF Len(filteredBooks) = 0
     THEN IF Len(books) = 0
          THEN Region("message", "No books found", <<>>)
          ELSE Region("message", "All found books are already in your lists", <<>>)
     ELSE Region("cards", "", filteredBooks)
PleaseEnter == Region("message", "Please enter a book title or author", <<>>)
ErrorSearching == Region("error", "Error searching for books", <<>>)

\* initializeApp: the cached search results are shown when there are any,
\* with the ids of the listed books; else the placeholder stays.
cachedSearchResults(cache, ub) ==
  IF Len(cache) > 0
  THEN displaySearchResults(cache, getAllUserBookIds(ub))
  ELSE InitialSearch

\* The try block of generateRecommendations after its await, and its catch:
\* the cache and the region it leaves.  With a rejected promise the await
\* throws and nothing is saved.
Resolution(cache, saved, region) ==
  [cache |-> cache, saved |-> saved, region |-> region]
afterAwait(replies, ub, cache) ==
  IF \E i \in 1 .. Len(replies) : replies[i] = Rejected
  THEN Resolution(cache, FALSE, FailedToGenerate)
  ELSE LET final == finalRecommendations(replies, ub)
           saved == saveRecommendationsCache(cache, final)
           shown == displayRecommendations(final, Undefined)
       IN IF shown = Thrown THEN Resolution(saved, TRUE, FailedToGenerate)
          ELSE IF Len(final) = 0 THEN Resolution(saved, TRUE, NoSuitable)
          ELSE Resolution(saved, TRUE, shown)

\* What the step that is returning did: how many regenerations it started,
\* the batch it resolved (NoBatch: none) and its place among the batches in
\* flight (1: the oldest), the cache and the number of batches in flight it
\* found; the text of the alert it raised ("": none), whether it drew the
\* lists and the search results again, and the search cache it found.
NoStep ==
  [started |-> 0, resolved |-> NoBatch, place |-> 0, previousCache |-> <<>>,
   inFlight |-> 0, alert |-> "", rendered |-> FALSE, previousSearch |-> <<>>]

\* initializeApp: the cached recommendations are shown when there are any,
\* with the ids of the listed books; else the placeholder stays.
cachedRecommendations(cache, ub) ==
  IF Len(cache) > 0
  THEN displayRecommendations(cache, Ids(getAllUserBookIds(ub)))
  ELSE InitialMessage

\* --------------------------------------------------------------- the state
Owned(ub) == Len(ub[ListOrder[1]]) + Len(ub[ListOrder[2]]) + Len(ub[ListOrder[3]])

\* The store holding the documents of doc, each under its key.
Store(doc) == [k \in DOMAIN doc |-> JSONstringify(k, doc[k])]

\* What localStorage can hold when the page is opened.
b1x == [id |-> 1, rev |-> "x"]
b1y == [id |-> 1, rev |-> "y"]
b2x == [id |-> 2, rev |-> "x"]
b2y == [id |-> 2, rev |-> "y"]
StoredAtStart ==
  { \* first visit: nothing stored
    <<>>,
    \* caches stored, no lists document
    [lastSearchQuery |-> "sea", lastSearchResults |-> <<b1x, b2x>>,
     recommendationsCache |-> <<b1y>>],
    \* a lists document without its readBooks list
    [userBooks |-> [currentlyReading |-> <<b2x>>, wantToRead |-> <<>>],
     lastSearchResults |-> <<b1x>>, recommendationsCache |-> <<b2y, b1y>>] }

\* An argument or a result that is not there.
Nothing == [nothing |-> TRUE]

\* No call is running.  A call is recorded with its arguments, the value it
\* returns, what became of its write (none attempted, ok, failed) and the
\* lists and the store it found; arg and result are the argument and the
\* result of a call that takes or returns something else than these.
NoCall ==
  [op |-> "none", book |-> NoBook, from |-> Null, to |-> Null, ret |-> FALSE,
   write |-> "none", pre |-> EmptyLists, preStore |-> <<>>,
   arg |-> Nothing, result |-> Nothing]

\* The module-level state of data.js before initializeApp runs.
Init ==
  /\ userBooks = EmptyLists
  /\ lastSearchResults = <<>>
  /\ recommendationsCache = <<>>
  /\ localStorage \in {Store(doc) : doc \in StoredAtStart}
  /\ started = FALSE
  /\ writeFailures = 0
  /\ call = NoCall
  /\ batches = <<>>
  /\ recommendationsList = InitialMessage
  /\ step = NoStep
  /\ searching = <<>>
  /\ searchResultsDiv = InitialSearch

\* initializeApp: loadAppState, then the lists, the cached search results
\* and the cached recommendations are drawn.  initialLists are the lists in
\* memory when it starts.
initializeApp(op, initialLists) ==
  /\ started' = TRUE
  /\ userBooks' = LoadedUserBooks(localStorage, initialLists)
  /\ lastSearchResults' =
       LoadedArray(localStorage, STORAGE_KEYS.LAST_SEARCH_RESULTS)
  /\ recommendationsCache' =
       LoadedArray(localStorage, STORAGE_KEYS.RECOMMENDATIONS_CACHE)
  /\ searchResultsDiv' = cachedSearchResults(lastSearchResults', userBooks')
  /\ recommendationsList' =
       cachedRecommendations(recommendationsCache', userBooks')
  /\ call' = [NoCall EXCEPT !.op = op, !.pre = userBooks,
                            !.preStore = localStorage]
  /\ UNCHANGED <<localStorage, writeFailures>>

\* The page has loaded: initializeApp runs, once.
LoadAppState ==
  /\ ~started
  /\ call.op = "none"
  /\ initializeApp("load", userBooks)
  /\ UNCHANGED <<batches, step, searching>>

\* The page is loaded again: the module state of data.js is created anew,
\* what the old page awaited is gone, and initializeApp runs.
Reopen ==
  /\ started
  /\ call.op = "none"
  /\ initializeApp("reopen", EmptyLists)
  /\ batches' = <<>>
  /\ searching' = <<>>
  /\ step' = NoStep

\* An operation whose saveUserBooks lets the exception of setItem through:
\* its return statement is not reached.
returnsAfterSave_throws(out, writeOk) == out.ret /\ (out.saved => writeOk)

\* What an operation returns once it has called saveUserBooks:
\* saveToLocalStorage catches what setItem throws, the return statement
\* that follows is reached either way.
returnsAfterSave(out, writeOk) == out.ret

\* The effect of one call on the state: the lists are replaced, the document
\* is written when the operation saved (writeOk: setItem did not throw).
Apply(op, book, from, to, out, writeOk) ==
  /\ Owned(out.userBooks) <= MaxOwned
  /\ (out.saved /\ ~writeOk) => writeFailures < MaxWriteFailures
  /\ writeFailures' =
       IF out.saved /\ ~writeOk THEN writeFailures + 1 ELSE writeFailures
  /\ userBooks' = out.userBooks
  /\ localStorage' =
       IF out.saved THEN saveUserBooks(localStorage, out.userBooks, writeOk)
       ELSE localStorage
  /\ call' = [op |-> op, book |-> book, from |-> from, to |-> to,
              ret |-> returnsAfterSave(out, writeOk),
              write |-> IF ~out.saved THEN "none"
                        ELSE IF writeOk THEN "ok" ELSE "failed",
              pre |-> userBooks, preStore |-> localStorage,
              arg |-> Nothing, result |-> Nothing]
  /\ UNCHANGED <<lastSearchResults, recommendationsCache, started, searching>>

\* The arguments the operations are called with.
ListArgs == ListNames \cup {UnknownList}
FromArgs == ListArgs \cup {Null}
IdArgs == BookIds \cup {NoId}
\* A record without an id stands for every argument `!book?.id` rejects.
BookArgs == Books \cup {NoBook}
IdOnly(id) == [id |-> id, rev |-> "none"]

\* The three operations, called with a book of books (an id of ids) and
\* list names of lists (and null as fromListName).  W: the outcomes setItem
\* can have in these calls (TRUE: it returns).
AddBookToListOf(books, lists, W) ==
  /\ started /\ call.op = "none"
  /\ \E book \in books, listName \in lists, writeOk \in W :
       Apply("add", book, Null, listName,
             addBookToList(userBooks, book, listName), writeOk)
  /\ UNCHANGED <<recVars, searchResultsDiv>>

\* listName is recorded as the call's `from`.
RemoveBookFromListOf(ids, lists, W) ==
  /\ started /\ call.op = "none"
  /\ \E bookId \in ids, listName \in lists, writeOk \in W :
       Apply("remove", IdOnly(bookId), listName, Null,
             removeBookFromList(userBooks, bookId, listName), writeOk)
  /\ UNCHANGED <<recVars, searchResultsDiv>>

MoveBookToListOf(ids, lists, W) ==
  /\ started /\ call.op = "none"
  /\ \E bookId \in ids, fromListName \in lists \cup {Null},
        toListName \in lists, writeOk \in W :
       Apply("move", IdOnly(bookId), fromListName, toListName,
             moveBookToList(userBooks, lastSearchResults, recommendationsCache,
                            bookId, fromListName, toListName), writeOk)
  /\ UNCHANGED <<recVars, searchResultsDiv>>

\* The same with every argument the callers can pass.
AddBookToList(W) == AddBookToListOf(BookArgs, ListArgs, W)
RemoveBookFromList(W) == RemoveBookFromListOf(IdArgs, ListArgs, W)
MoveBookToList(W) == MoveBookToListOf(IdArgs, ListArgs, W)

\* getBookListStatus(bookId), as handleViewDetails calls it.
GetBookListStatus ==
  /\ started /\ call.op = "none"
  /\ \E bookId \in IdArgs :
       call' = [NoCall EXCEPT
                  !.op = "status", !.book = IdOnly(bookId),
                  !.pre = userBooks, !.preStore = localStorage,
                  !.result = [list |-> getBookListStatus(userBooks, bookId)]]
  /\ UNCHANGED <<userBooks, lastSearchResults, recommendationsCache,
                 localStorage, started, writeFailures, searching>>
  /\ UNCHANGED <<recVars, searchResultsDiv>>

\* getBookById(bookId).
GetBookById ==
  /\ started /\ call.op = "none"
  /\ \E bookId \in IdArgs :
       call' = [NoCall EXCEPT
                  !.op = "byId", !.book = IdOnly(bookId),
                  !.pre = userBooks, !.preStore = localStorage,
                  !.result = getBookById(userBooks, lastSearchResults,
                                         recommendationsCache, bookId)]
  /\ UNCHANGED <<userBooks, lastSearchResults, recommendationsCache,
                 localStorage, started, writeFailures, searching>>
  /\ UNCHANGED <<recVars, searchResultsDiv>>

\* The call has returned to its caller.
Return ==
  /\ call.op # "none"
  /\ call' = NoCall
  /\ step' = NoStep
  /\ UNCHANGED <<userBooks, lastSearchResults, recommendationsCache,
                 localStorage, started, writeFailures, batches,
                 recommendationsList, searching, searchResultsDiv>>

\* The list operations with a store that accepts every write.
Next ==
  \/ LoadAppState
  \/ AddBookToList({TRUE})
  \/ RemoveBookFromList({TRUE})
  \/ MoveBookToList({TRUE})
  \/ Return

Spec == Init /\ [][Next]_vars

\* The list operations and the lookups over several visits of the page.
NextSession ==
  \/ LoadAppState
  \/ AddBookToList({TRUE})
  \/ RemoveBookFromList({TRUE})
  \/ MoveBookToList({TRUE})
  \/ GetBookListStatus
  \/ GetBookById
  \/ Reopen
  \/ Return

SpecSession == Init /\ [][NextSession]_vars

\* The list operations on a first visit or after one that stored no lists
\* document: the three lists start empty.
InitEmptyLists == Init /\ ~HasItem(localStorage, STORAGE_KEYS.USER_BOOKS)

SpecEmptyLists == InitEmptyLists /\ [][Next]_vars

\* The same with a store whose writes can throw, for the books of two
\* cards and the three lists.
CardBooks == {b1x, b2y}
CardIds == {book.id : book \in CardBooks}
NextWriteFail ==
  \/ LoadAppState
  \/ AddBookToListOf(CardBooks, ListNames, BOOLEAN)
  \/ RemoveBookFromListOf(CardIds, ListNames, BOOLEAN)
  \/ MoveBookToListOf(CardIds, ListNames, BOOLEAN)
  \/ Return

SpecWriteFail == Init /\ [][NextWriteFail]_vars

\* ------------------------------------------ the engine and its handlers
\* No regeneration is started while MaxInFlight of them await their queries.
MaxInFlight == 2
\* No handler is run that would leave more than MaxListed entries in the
\* three lists together.
MaxListed == 2
\* The catalog's replies to a ranking query have up to MaxReplyLen volumes
\* (and the long replies below).
MaxReplyLen == 3

\* The volumes the user can put in a list.  rA gives a genre and a title
\* keyword to search for, rB nothing.
rA == Volume(1, <<"Fantasy">>, <<>>, <<"The", "Dispossessed">>, 45, 100, {"thumbnail"})
rB == Volume(2, <<>>, <<>>, <<"The", "Sea">>, 50, 10, {"thumbnail"})
\* Volumes the catalog returns to the engine's queries; n0 is what an
\* earlier visit left in the recommendation cache.
n0 == Volume(5, <<"Fantasy">>, <<>>, <<>>, 40, 10, {"thumbnail"})
n1 == Volume(3, <<"Fantasy">>, <<>>, <<>>, 45, 100, {"thumbnail"})
n2 == Volume(4, <<>>, <<"Le Guin">>, <<>>, 50, 10, {"smallThumbnail"})
ListBooks == {rA, rB}
\* The ids the handlers are called with: those of the cards on the page.
ListBookIds == {book.id : book \in ListBooks}
\* The list a card's modal names as the book's current list, or null.
CurrentListArgs == ListNames \cup {Null}
\* The field prefixes of the queries.
Prefixes == {"subject:", "inauthor:", ""}
\* What fetchBooks resolves with when it does not reject, by the prefix of
\* the query: the catalog answers a query by field with the volumes that
\* have the term in that field, and a query without a field with its best
\* sellers.
CatalogReplies ==
  [prefix \in Prefixes |->
     IF prefix = "subject:" THEN {<<n1, rA>>}
     ELSE IF prefix = "inauthor:" THEN {<<n2>>}
     ELSE {<<rB, n2, n1>>}]

\* What localStorage holds when the page is opened, with full volumes.
StoredForRegen ==
  { [userBooks |-> [currentlyReading |-> <<>>, wantToRead |-> <<rB>>,
                    readBooks |-> <<rA>>],
     lastSearchResults |-> <<rA, rB>>, recommendationsCache |-> <<n0>>] }

InitRegen ==
  /\ userBooks = EmptyLists
  /\ lastSearchResults = <<>>
  /\ recommendationsCache = <<>>
  /\ localStorage \in {Store(doc) : doc \in StoredForRegen}
  /\ started = FALSE
  /\ writeFailures = 0
  /\ call = NoCall
  /\ batches = <<>>
  /\ recommendationsList = InitialMessage
  /\ step = NoStep
  /\ searching = <<>>
  /\ searchResultsDiv = InitialSearch

\* The batches in flight once one more is started, cancelling the others.
inFlightWith_cancelling(inFlight, batch) == <<batch>>

\* The batches in flight once one more is started: nothing ties a call of
\* generateRecommendations to the calls before it.
inFlightWith(inFlight, batch) == Append(inFlight, batch)

\* generateRecommendations up to its await, with the lists ub: the region
\* shows the spinner and every query is issued.
\* done is what the handler that calls it has done before; limit: no
\* regeneration is started while so many await their queries; noted: the
\* batch keeps the lists it was started with.
generateRecommendationsOf(ub, done, limit, noted) ==
  /\ Len(batches) < limit
  /\ batches' =
       inFlightWith(batches, Batch(searchQueries(ub.readBooks),
                                   IF noted THEN ub ELSE EmptyLists))
  /\ recommendationsList' = Spinner
  /\ step' = [done EXCEPT !.started = 1, !.inFlight = Len(batches),
                          !.previousCache = recommendationsCache]

generateRecommendations(ub, done) ==
  generateRecommendationsOf(ub, done, MaxInFlight, FALSE)

\* A handler that starts no regeneration.
noRegeneration(done) ==
  UNCHANGED <<batches, recommendationsList>> /\ step' = done

\* A handler whose list operation returned false raising an alert and
\* drawing the lists again all the same.
alerted_rerenders(text) == [NoStep EXCEPT !.alert = text, !.rendered = TRUE]

\* A handler whose list operation returned false: alert(text), return.
alerted(text) == [NoStep EXCEPT !.alert = text]
\* A handler whose list operation returned true: updateAllUserListsUI and
\* displaySearchResults.
rerendered == [NoStep EXCEPT !.rendered = TRUE]

\* What a handler leaves in the search region: when its list operation
\* returned true, displaySearchResults draws the cached results again with
\* the ids listed by then; else the handler returns before that.
redrawn(out) ==
  IF out.ret
  THEN displaySearchResults(lastSearchResults, getAllUserBookIds(out.userBooks))
  ELSE searchResultsDiv

\* handleMoveToList regenerating for its target only.
regeneratesOnMove_targetOnly(fromListName, toListName) ==
  toListName = "readBooks"

\* The tests under which the three handlers call generateRecommendations.
regeneratesOnAdd(listName) == listName = "readBooks"
regeneratesOnMove(fromListName, toListName) ==
  toListName = "readBooks" \/ fromListName = "readBooks"
regeneratesOnRemove(listName) == listName = "readBooks"

\* handleAddToList with a book of books and a list name of lists:
\* addBookToList, and when that returns true the lists are drawn again and
\* a regeneration is started for readBooks.
HandleAddToListOf(books, lists, limit, noted) ==
  /\ started /\ call.op = "none"
  /\ \E book \in books, listName \in lists :
       LET out == addBookToList(userBooks, book, listName)
       IN /\ Owned(out.userBooks) <= MaxListed
          /\ Apply("add", book, Null, listName, out, TRUE)
          /\ searchResultsDiv' = redrawn(out)
          /\ IF ~out.ret
             THEN noRegeneration(
                    alerted("This book is already in one of your lists!"))
             ELSE IF regeneratesOnAdd(listName)
                  THEN generateRecommendationsOf(out.userBooks, rerendered,
                                                 limit, noted)
                  ELSE noRegeneration(rerendered)

\* handleMoveToList with an id of ids, from a list of froms (or null) to a
\* list of tos.
HandleMoveToListOf(ids, froms, tos, limit, noted) ==
  /\ started /\ call.op = "none"
  /\ \E bookId \in ids, fromListName \in froms, toListName \in tos :
       LET out == moveBookToList(userBooks, lastSearchResults,
                                 recommendationsCache, bookId, fromListName,
                                 toListName)
       IN /\ Owned(out.userBooks) <= MaxListed
          /\ Apply("move", IdOnly(bookId), fromListName, toListName, out, TRUE)
          /\ searchResultsDiv' = redrawn(out)
          /\ IF ~out.ret
             THEN noRegeneration(
                    alerted("Failed to move book. It might already be in the target list."))
             ELSE IF regeneratesOnMove(fromListName, toListName)
                  THEN generateRecommendationsOf(out.userBooks, rerendered,
                                                 limit, noted)
                  ELSE noRegeneration(rerendered)

\* handleRemoveFromList with an id of ids and a list of lists.
HandleRemoveFromListOf(ids, lists, limit, noted) ==
  /\ started /\ call.op = "none"
  /\ \E bookId \in ids, listName \in lists :
       LET out == removeBookFromList(userBooks, bookId, listName)
       IN /\ Apply("remove", IdOnly(bookId), listName, Null, out, TRUE)
          /\ searchResultsDiv' = redrawn(out)
          /\ IF ~out.ret
             THEN noRegeneration(alerted("Failed to remove book."))
             ELSE IF regeneratesOnRemove(listName)
                  THEN generateRecommendationsOf(out.userBooks, rerendered,
                                                 limit, noted)
                  ELSE noRegeneration(rerendered)

\* handleGenerateRecommendations: the click on the button.
HandleGenerateRecommendationsOf(limit, noted) ==
  /\ started /\ call.op = "none"
  /\ call' = [NoCall EXCEPT !.op = "generate", !.pre = userBooks,
                            !.preStore = localStorage]
  /\ generateRecommendationsOf(userBooks, NoStep, limit, noted)
  /\ UNCHANGED <<userBooks, lastSearchResults, recommendationsCache,
                 localStorage, started, writeFailures, searching,
                 searchResultsDiv>>

\* The handlers with the books of the cards of the page.
HandleAddToList == HandleAddToListOf(ListBooks, ListArgs, MaxInFlight, FALSE)
HandleMoveToList ==
  HandleMoveToListOf(ListBookIds, CurrentListArgs, ListNames, MaxInFlight,
                     FALSE)
HandleRemoveFromList ==
  HandleRemoveFromListOf(ListBookIds, ListNames, MaxInFlight, FALSE)
HandleGenerateRecommendations ==
  HandleGenerateRecommendationsOf(MaxInFlight, FALSE)

\* The batches in flight when batch b resolves and is waited for again.
WithoutBatch_keeps(inFlight, b) == inFlight

\* The batches left in flight when batch b resolves.
WithoutBatch(inFlight, b) ==
  [j \in 1 .. (Len(inFlight) - 1) |->
     IF j < b THEN inFlight[j] ELSE inFlight[j + 1]]

\* The filter reading the lists the regeneration was started with.
listsRead_atStart(batch, ub) == batch.lists

\* The lists getAllUserBookIds reads for the filter of a batch: it is
\* called after the await, so it reads the lists as they are by then.
listsRead(batch, ub) == ub

\* Query i of batch b in flight completes (with one of the replies to its
\* prefix) or fails.  When that settles Promise.all, generateRecommendations
\* resumes in the same turn and runs to its end.
QuerySettlesAt(RepliesTo, b, i) ==
  /\ call.op = "none"
  /\ b \in 1 .. Len(batches)
  /\ i \in 1 .. Len(batches[b].queries)
  /\ batches[b].replies[i] = Pending
  /\ \E reply \in {Caught} \cup
                   {Fulfilled(r) :
                      r \in RepliesTo[batches[b].queries[i].prefix]} :
       LET replies == [batches[b].replies EXCEPT ![i] = reply]
           res == afterAwait(replies, listsRead(batches[b], userBooks),
                             recommendationsCache)
       IN IF PromiseAll(replies)
          THEN /\ recommendationsCache' = res.cache
               /\ localStorage' =
                    IF res.saved
                    THEN saveToLocalStorage(
                           localStorage, STORAGE_KEYS.RECOMMENDATIONS_CACHE,
                           res.cache, TRUE)
                    ELSE localStorage
               /\ recommendationsList' = res.region
               /\ batches' = WithoutBatch(batches, b)
               /\ call' = [NoCall EXCEPT !.op = "resolve",
                                         !.pre = userBooks,
                                         !.preStore = localStorage]
               /\ step' = [NoStep EXCEPT
                             !.resolved = [batches[b] EXCEPT
                                             !.replies = replies],
                             !.place = b,
                             !.previousCache = recommendationsCache,
                             !.inFlight = Len(batches)]
          ELSE /\ batches' = [batches EXCEPT ![b].replies = replies]
               /\ UNCHANGED <<recommendationsCache, localStorage,
                              recommendationsList, call, step>>
  /\ UNCHANGED <<userBooks, lastSearchResults, started, writeFailures,
                 searching, searchResultsDiv>>

\* The batches that can be in flight have at most MaxQueries queries.
MaxQueries == GenreLimit + AuthorLimit + 1

\* One query of a batch in flight settles.
QuerySettles(RepliesTo) ==
  \E b \in 1 .. MaxInFlight, i \in 1 .. MaxQueries :
    QuerySettlesAt(RepliesTo, b, i)

\* The handlers and the engine, with a store that accepts every write.
NextRegen ==
  \/ LoadAppState
  \/ HandleAddToList
  \/ HandleMoveToList
  \/ HandleRemoveFromList
  \/ HandleGenerateRecommendations
  \/ QuerySettles(CatalogReplies)
  \/ Return

SpecRegen == InitRegen /\ [][NextRegen]_vars

\* ------------------------------------------ one regeneration's ranking
\* The volumes of the catalog's replies to a ranking query: three rated
\* volumes, a second record of volume 1 without ratings, records of volumes
\* 2 and 3 without a cover and without volumeInfo, a record without id, and
\* a volume rated as volume 1 is.  Volume 2 has a genre and an author.
p1 == Volume(1, <<>>, <<>>, <<>>, 45, 100, {"thumbnail"})
p2 == Volume(2, <<"Fantasy">>, <<"Le Guin">>, <<>>, 45, 50, {"thumbnail"})
p3 == Volume(3, <<>>, <<>>, <<>>, 50, 10, {"smallThumbnail"})
p1u == Volume(1, <<>>, <<>>, <<>>, Missing, Missing, {"thumbnail", "small"})
p2n == Volume(2, <<>>, <<>>, <<>>, 50, 100, {"small"})
p3b == Bare(3)
p0 == Volume(NoId, <<>>, <<>>, <<>>, 50, 100, {"thumbnail"})
p4 == Volume(4, <<>>, <<>>, <<>>, 45, 100, {"thumbnail"})
RankVolumes == {p1, p2, p3, p1u, p2n, p3b, p0, p4}

\* A reply of n volumes with ids 1..n, all with a cover, rated 4.0 to 5.0
\* with 0 or 100 ratings.
LongReply(n) ==
  [i \in 1 .. n |->
     Volume(i, <<>>, <<>>, <<>>, 40 + 5 * (i % 3), 100 * (i % 2), {"thumbnail"})]

\* The replies to the query that is awaited: every sequence of up to
\* MaxReplyLen volumes, and three long ones.
RankReplies ==
  [prefix \in Prefixes |->
     UNION {[1 .. n -> RankVolumes] : n \in 0 .. MaxReplyLen}
       \cup {LongReply(RecommendationLimit + n) : n \in 0 .. 2}]

\* The lists when the regeneration started: empty, or volume 2 read.
RankLists == {EmptyLists, [EmptyLists EXCEPT !["readBooks"] = <<p2>>]}
\* The cache it found.
RankCaches == {<<>>, <<p4, p2>>}
\* What the queries before the last have come back with.
EarlierReplies ==
  {Caught, Fulfilled(<<>>), Fulfilled(<<p1u, p3b>>), Fulfilled(<<p4, p1>>)}

\* A regeneration in flight with one query left to answer: the general
\* query when no book is read, else the author query of volume 2, its genre
\* query being answered.
InitRank ==
  /\ userBooks \in RankLists
  /\ lastSearchResults = <<>>
  /\ recommendationsCache \in RankCaches
  /\ localStorage =
       Store([k \in {STORAGE_KEYS.USER_BOOKS,
                     STORAGE_KEYS.RECOMMENDATIONS_CACHE} |->
                IF k = STORAGE_KEYS.USER_BOOKS THEN userBooks
                ELSE recommendationsCache])
  /\ started = TRUE
  /\ writeFailures = 0
  /\ call = NoCall
  /\ \E earlier \in EarlierReplies :
       LET batch == Batch(searchQueries(userBooks.readBooks), EmptyLists)
           last == Len(batch.queries)
       IN batches =
            <<[batch EXCEPT !.replies =
                 [i \in 1 .. last |-> IF i < last THEN earlier ELSE Pending]]>>
  /\ recommendationsList = Spinner
  /\ step = NoStep
  /\ searching = <<>>
  /\ searchResultsDiv = InitialSearch

\* The last query of that regeneration is answered.
NextRank == QuerySettles(RankReplies)

SpecRank == InitRank /\ [][NextRank]_vars

\* -------------------------------------------------------------- the search
\* No search is submitted while MaxSearches of them await the catalog.
MaxSearches == 2

\* What DOM.searchInput holds when the form is submitted.
SearchInputs == {"", "  ", "dune", " dune ", "sea"}
\* String.prototype.trim on these.
trim(value) ==
  CASE value = "  " -> ""
    [] value = " dune " -> "dune"
    [] OTHER -> value

\* The queries these inputs give.
SearchQueries == {trim(value) : value \in SearchInputs} \ {""}
\* What fetchBooks resolves with when a search does not fail, by its query:
\* the catalog answers with volumes that match the query, or with none.
SearchReplies ==
  [query \in SearchQueries |->
     IF query = "dune" THEN {<<>>, <<b2y>>}
     ELSE IF query = "sea" THEN {<<>>, <<b1x, b2x>>, <<b2x, b1y>>}
     ELSE {<<>>}]

\* saveLastSearchResults adding the results to those it holds.
saveLastSearchResults_appends(cache, results) == cache \o results

\* saveLastSearchResults: the search cache in memory after the call (its
\* argument is an array: fetchBooks resolves with one); the same array
\* goes to the store.
saveLastSearchResults(cache, results) == results

\* saveLastSearchQuery storing what the input holds by then: the query of
\* the search submitted last.
saveLastSearchQuery_inputNow(ls, query) ==
  saveToLocalStorage(ls, STORAGE_KEYS.LAST_SEARCH_QUERY,
                     searching[Len(searching)], TRUE)

\* saveLastSearchQuery(query): the query goes to the store (there is no
\* copy of it in memory).
saveLastSearchQuery(ls, query) ==
  saveToLocalStorage(ls, STORAGE_KEYS.LAST_SEARCH_QUERY, query, TRUE)

\* handleSearchSubmit up to its await, the input holding a value of inputs:
\* with nothing to search for it shows the prompt and returns, else
\* fetchBooks is called with the trimmed value.  limit: no search is
\* submitted while so many await the catalog.
HandleSearchSubmitOf(inputs, limit) ==
  /\ started /\ call.op = "none"
  /\ \E value \in inputs :
       LET query == trim(value)
       IN /\ query # "" => Len(searching) < limit
          /\ searching' =
               IF query = "" THEN searching ELSE Append(searching, query)
          /\ call' = [NoCall EXCEPT
                        !.op = "submit", !.pre = userBooks,
                        !.preStore = localStorage,
                        !.arg = [value |-> value, query |-> query],
                        !.result =
                          [shown |-> IF query = "" THEN PleaseEnter
                                     ELSE Loading]]
  /\ searchResultsDiv' = call'.result.shown
  /\ step' = [NoStep EXCEPT !.previousSearch = lastSearchResults]
  /\ UNCHANGED <<userBooks, lastSearchResults, recommendationsCache,
                 localStorage, started, writeFailures, batches,
                 recommendationsList>>

HandleSearchSubmit == HandleSearchSubmitOf(SearchInputs, MaxSearches)

\* The searches left in flight when search i settles.
WithoutSearch(inFlight, i) ==
  [j \in 1 .. (Len(inFlight) - 1) |->
     IF j < i THEN inFlight[j] ELSE inFlight[j + 1]]

\* fetchBooks settles for search i in flight (with one of the replies to
\* its query, or failing) and handleSearchSubmit runs to its end: the
\* results and the query are saved and the results drawn, or the error is
\* shown.
SearchSettlesOf(RepliesTo) ==
  /\ call.op = "none"
  /\ \E i \in 1 .. Len(searching) :
       /\ searching' = WithoutSearch(searching, i)
       /\ \/ \E books \in RepliesTo[searching[i]] :
               /\ lastSearchResults' =
                    saveLastSearchResults(lastSearchResults, books)
               /\ localStorage' =
                    saveLastSearchQuery(
                      saveToLocalStorage(localStorage,
                                         STORAGE_KEYS.LAST_SEARCH_RESULTS,
                                         lastSearchResults', TRUE),
                      searching[i])
               /\ call' = [NoCall EXCEPT
                             !.op = "searched", !.ret = TRUE,
                             !.pre = userBooks, !.preStore = localStorage,
                             !.arg = [value |-> searching[i],
                                      query |-> searching[i]],
                             !.result =
                               [books |-> books,
                                shown |-> displaySearchResults(
                                            books,
                                            getAllUserBookIds(userBooks))]]
          \/ /\ UNCHANGED <<lastSearchResults, localStorage>>
             /\ call' = [NoCall EXCEPT
                           !.op = "searched", !.ret = FALSE,
                           !.pre = userBooks, !.preStore = localStorage,
                           !.arg = [value |-> searching[i],
                                    query |-> searching[i]],
                           !.result = [books |-> <<>>,
                                       shown |-> ErrorSearching]]
       /\ step' = [NoStep EXCEPT !.previousSearch = lastSearchResults,
                                 !.place = i, !.inFlight = Len(searching)]
  /\ searchResultsDiv' = call'.result.shown
  /\ UNCHANGED <<userBooks, recommendationsCache, started, writeFailures,
                 batches, recommendationsList>>

SearchSettles == SearchSettlesOf(SearchReplies)

\* The searches of a visit, with a store that accepts every write.
NextSearch ==
  \/ LoadAppState
  \/ HandleSearchSubmit
  \/ SearchSettles
  \/ Return

SpecSearch == Init /\ [][NextSearch]_vars

\* ---------------------------------------------------------- the whole page
\* What localStorage holds when the page is opened: a book read, the last
\* search and recommendations of an earlier visit, both naming a book that
\* is in no list.
StoredForPage ==
  { [userBooks |-> [currentlyReading |-> <<>>, wantToRead |-> <<>>,
                    readBooks |-> <<rA>>],
     lastSearchQuery |-> "sea", lastSearchResults |-> <<rA, rB>>,
     recommendationsCache |-> <<rB, n0>>] }

InitPage ==
  /\ userBooks = EmptyLists
  /\ lastSearchResults = <<>>
  /\ recommendationsCache = <<>>
  /\ localStorage \in {Store(doc) : doc \in StoredForPage}
  /\ started = FALSE
  /\ writeFailures = 0
  /\ call = NoCall
  /\ batches = <<>>
  /\ recommendationsList = InitialMessage
  /\ step = NoStep
  /\ searching = <<>>
  /\ searchResultsDiv = InitialSearch

\* On this page no regeneration is started while MaxPageInFlight of them
\* await their queries, and no search while MaxPageSearches await the
\* catalog.
MaxPageInFlight == 1
MaxPageSearches == 1
\* What the user types, and what the catalog finds.
PageInputs == {"", "dune"}
PageSearchReplies == [query \in SearchQueries |-> {<<n1, rB>>}]
\* The book of the cards in the two regions and the lists its modal
\* offers; a card's own buttons pass names that are no key of userBooks.
PageBooks == {rB}
PageBookIds == {book.id : book \in PageBooks}
PageLists == {"wantToRead", "readBooks"}

\* Every handler of the page, with a store that accepts every write.
NextPage ==
  \/ LoadAppState
  \/ HandleAddToListOf(PageBooks, PageLists \cup {UnknownList},
                       MaxPageInFlight, FALSE)
  \/ HandleMoveToListOf(PageBookIds, PageLists \cup {Null}, PageLists,
                        MaxPageInFlight, FALSE)
  \/ HandleRemoveFromListOf(PageBookIds, PageLists, MaxPageInFlight, FALSE)
  \/ HandleGenerateRecommendationsOf(MaxPageInFlight, FALSE)
  \/ QuerySettles(CatalogReplies)
  \/ HandleSearchSubmitOf(PageInputs, MaxPageSearches)
  \/ SearchSettlesOf(PageSearchReplies)
  \/ Return

SpecPage == InitPage /\ [][NextPage]_vars

\* ------------------------------------- the lists change under a regeneration
\* The lists change while regenerations await their queries: the book of
\* the cards is added from its modal and taken out again, the book read is
\* removed.  Every batch keeps the lists it was started with.
NextInFlight ==
  \/ LoadAppState
  \/ HandleMoveToListOf(PageBookIds, {Null}, {"wantToRead"}, MaxInFlight, TRUE)
  \/ HandleRemoveFromListOf(ListBookIds, PageLists, MaxInFlight, TRUE)
  \/ HandleGenerateRecommendationsOf(MaxInFlight, TRUE)
  \/ QuerySettles(CatalogReplies)
  \/ Return

SpecInFlight == InitPage /\ [][NextInFlight]_vars

\* --------------------------------------- every query completes or fails
\* One query of batch b in flight settles.
BatchSettles(RepliesTo, b) ==
  \E i \in 1 .. MaxQueries : QuerySettlesAt(RepliesTo, b, i)

\* The page with the button and the removal from readBooks, which change
\* the queries of the next regeneration.
NextLive ==
  \/ LoadAppState
  \/ HandleRemoveFromListOf(PageBookIds, {"readBooks"}, MaxInFlight, FALSE)
  \/ HandleGenerateRecommendationsOf(MaxInFlight, FALSE)
  \/ QuerySettles(CatalogReplies)
  \/ Return

\* Batch b in flight waits for a query while no handler runs: what enables
\* BatchSettles, whose other conjuncts only say what the step writes.
HasPending(b) ==
  /\ call.op = "none"
  /\ b \in 1 .. Len(batches)
  /\ \E i \in 1 .. Len(batches[b].replies) : batches[b].replies[i] = Pending

\* A handler that runs returns (its code has no loop that waits), and
\* every fetch of a batch in flight completes or fails: strong fairness of
\* BatchSettles for every place, written with the guard that enables it.
FairLive ==
  /\ WF_vars(Return)
  /\ \A b \in 1 .. MaxInFlight :
       \/ <>[]~HasPending(b)
       \/ []<><<BatchSettles(CatalogReplies, b)>>_vars

SpecLive == InitRegen /\ [][NextLive]_vars /\ FairLive

\* ------------------------------------------- the queries of a regeneration
\* readBooks holds up to MaxRead books when the regeneration is started.
MaxRead == 3

\* A volume with the words of its description.
Described(volume, description) ==
  [volume EXCEPT !.volumeInfo.description = description]

\* The books read: with two genres each and one or two authors, without
\* volumeInfo, with a title that gives no keyword, with four keywords.
q1 == Volume(1, <<"Fantasy", "Fiction">>, <<"Le Guin">>, <<"The", "Dispossessed">>, 45, 100, {"thumbnail"})
q2 == Described(Volume(2, <<"Fiction", "Science">>, <<"Herbert", "Le Guin">>, <<"Dune">>, 45, 50, {"thumbnail"}), <<"A", "Story", "About", "sand">>)
q3 == Volume(3, <<"History", "Poetry">>, <<"Homer">>, <<"Iliad", "Sand", "Sea">>, 50, 10, {"thumbnail"})
q4 == Bare(4)
q5 == Volume(5, <<>>, <<>>, <<"The", "Sea">>, Missing, Missing, {})
q6 == Described(Volume(6, <<>>, <<>>, <<"Dune", "Messiah">>, 40, 10, {"thumbnail"}), <<"Sand", "and", "Spice">>)
ReadVolumes == {q1, q2, q3, q4, q5, q6}

\* The readBooks lists: no two books of a list have one id.
ReadLists ==
  {list \in UNION {[1 .. n -> ReadVolumes] : n \in 0 .. MaxRead} :
     \A i, j \in 1 .. Len(list) : list[i].id = list[j].id => i = j}

\* The page with books read and no regeneration in flight.
InitQueries ==
  /\ \E list \in ReadLists : userBooks = [EmptyLists EXCEPT !["readBooks"] = list]
  /\ lastSearchResults = <<>>
  /\ recommendationsCache = <<>>
  /\ localStorage =
       Store([k \in {STORAGE_KEYS.USER_BOOKS} |-> userBooks])
  /\ started = TRUE
  /\ writeFailures = 0
  /\ call = NoCall
  /\ batches = <<>>
  /\ recommendationsList = InitialMessage
  /\ step = NoStep
  /\ searching = <<>>
  /\ searchResultsDiv = InitialSearch

\* The button is clicked.
NextQueries == HandleGenerateRecommendations

SpecQueries == InitQueries /\ [][NextQueries]_vars

\* ------------------------------------------- api.js: getOpenLibraryCover
\* A volume lists up to MaxIdentifiers industry identifiers.
MaxIdentifiers == 3

\* A string is the sequence of its characters; null and "" are both <<>>
\* (the function only tests them for truth).
OCLC == <<"O", "C", "L", "C">>
OCLCColon == <<"O", "C", "L", "C", ":">>
\* String.prototype.startsWith.
startsWith(string, prefix) ==
  /\ Len(string) >= Len(prefix)
  /\ SubSeq(string, 1, Len(prefix)) = prefix
\* Where a pattern first occurs in a string (0: nowhere).
indexOf(string, pattern) ==
  LET places == {i \in 1 .. (Len(string) - Len(pattern) + 1) :
                   SubSeq(string, i, i + Len(pattern) - 1) = pattern}
  IN IF places = {} THEN 0
     ELSE CHOOSE i \in places : \A j \in places : i <= j

\* replace leaving the string as it is.
replace_nothing(string, pattern, by) == string

\* String.prototype.replace(pattern, by) with a string pattern: the first
\* occurrence is replaced.
replace(string, pattern, by) ==
  LET i == indexOf(string, pattern)
  IN IF i = 0 THEN string
     ELSE SubSeq(string, 1, i - 1) \o by
            \o SubSeq(string, i + Len(pattern), Len(string))

\* An entry of volumeInfo.industryIdentifiers.
Identifier(type, identifier) == [type |-> type, identifier |-> identifier]
\* The cover URL https://covers.openlibrary.org/b/<key>/<value>-<size>.jpg,
\* and null.
CoverUrl(key, value, size) == [key |-> key, value |-> value, size |-> size]
NoCover == [key |-> "null", value |-> <<>>, size |-> ""]
\* size = "M" when the argument is not passed.
NoSize == ""
sizeOrDefault(size) == IF size = NoSize THEN "M" ELSE size

\* The three variables after the loop over the identifiers, from their
\* values before it.
RECURSIVE scanIdentifiers(_, _)
scanIdentifiers(found, identifiers) ==
  IF identifiers = <<>> THEN found
  ELSE LET id == Head(identifiers)
           next ==
             IF id.type = "ISBN_13" THEN [found EXCEPT !.isbn13 = id.identifier]
             ELSE IF id.type = "ISBN_10"
                  THEN [found EXCEPT !.isbn10 = id.identifier]
             ELSE IF id.type = "OTHER" /\ startsWith(id.identifier, OCLC)
                  THEN [found EXCEPT
                          !.oclc = replace(id.identifier, OCLCColon, <<>>)]
             ELSE found
       IN scanIdentifiers(next, Tail(identifiers))

\* getOpenLibraryCover taking the OCLC number before the ISBNs.
getOpenLibraryCover_oclcFirst(volumeInfo, size) ==
  IF volumeInfo = NoInfo \/ "industryIdentifiers" \notin DOMAIN volumeInfo
  THEN NoCover
  ELSE LET found == scanIdentifiers([isbn13 |-> <<>>, isbn10 |-> <<>>,
                                     oclc |-> <<>>],
                                    volumeInfo.industryIdentifiers)
       IN IF found.oclc # <<>>
          THEN CoverUrl("oclc", found.oclc, sizeOrDefault(size))
          ELSE IF found.isbn13 # <<>>
               THEN CoverUrl("isbn", found.isbn13, sizeOrDefault(size))
          ELSE IF found.isbn10 # <<>>
               THEN CoverUrl("isbn", found.isbn10, sizeOrDefault(size))
          ELSE NoCover

getOpenLibraryCover(volumeInfo, size) ==
  IF volumeInfo = NoInfo \/ "industryIdentifiers" \notin DOMAIN volumeInfo
  THEN NoCover
  ELSE LET found == scanIdentifiers([isbn13 |-> <<>>, isbn10 |-> <<>>,
                                     oclc |-> <<>>],
                                    volumeInfo.industryIdentifiers)
       IN IF found.isbn13 # <<>>
          THEN CoverUrl("isbn", found.isbn13, sizeOrDefault(size))
          ELSE IF found.isbn10 # <<>>
               THEN CoverUrl("isbn", found.isbn10, sizeOrDefault(size))
          ELSE IF found.oclc # <<>>
               THEN CoverUrl("oclc", found.oclc, sizeOrDefault(size))
          ELSE NoCover

\* The identifiers the catalog lists for a volume: an ISBN-13, an ISBN-10,
\* an OCLC number and a library's own number as OTHER, an ISSN.
CatalogIdentifiers ==
  {Identifier("ISBN_13", <<"9", "7", "8", "0">>),
   Identifier("ISBN_10", <<"0", "4", "4">>),
   Identifier("OTHER", <<"O", "C", "L", "C", ":", "4", "2">>),
   Identifier("OTHER", <<"U", "O", "M", ":", "3", "9">>),
   Identifier("ISSN", <<"1", "2", "3", "4">>)}
\* The volumeInfo blocks getOpenLibraryCover is called with: none, one
\* without identifiers, and one for each list of up to MaxIdentifiers
\* different identifiers.
CoverInputs ==
  {NoInfo, [title |-> <<"Dune">>]}
    \cup {[industryIdentifiers |-> list] :
            list \in {l \in UNION {[1 .. n -> CatalogIdentifiers] :
                                     n \in 0 .. MaxIdentifiers} :
                        \A i, j \in 1 .. Len(l) : l[i] = l[j] => i = j}}
Sizes == {"S", "M", "L", NoSize}

\* getOpenLibraryCover(volumeInfo, size), as a card or the modal calls it.
GetOpenLibraryCover ==
  /\ call.op = "none"
  /\ \E volumeInfo \in CoverInputs, size \in Sizes :
       call' = [NoCall EXCEPT
                  !.op = "cover", !.pre = userBooks,
                  !.preStore = localStorage,
                  !.arg = [volumeInfo |-> volumeInfo, size |-> size],
                  !.result = getOpenLibraryCover(volumeInfo, size)]
  /\ UNCHANGED <<userBooks, lastSearchResults, recommendationsCache,
                 localStorage, started, writeFailures, searching>>
  /\ UNCHANGED <<recVars, searchResultsDiv>>

NextCover ==
  \/ GetOpenLibraryCover
  \/ Return

SpecCover == Init /\ [][NextCover]_vars

\* ------------------------------------------------------------------ claims
\* A claim about a call is stated on the state in which the call returns:
\* call.pre and call.preStore are what the call found, the variables what
\* it leaves.  The operations do not touch the two caches.
\* The lists a book id is in.
ListsOf(ub, id) == {l \in ListNames : SomeId(ub[l], id)}
\* How often an id occurs in one list.
Occurrences(list, id) == Cardinality({i \in 1 .. Len(list) : list[i].id = id})
\* The other books of a list, in their order.
Others(list, id) == SelectSeq(list, LAMBDA b : b.id # id)
\* The lists other than l are as the call found them.
OtherListsKept(l) == \A m \in ListNames \ {l} : userBooks[m] = call.pre[m]
\* The records a cache holds under an id.
RecordsOf(list, id) == {list[i] : i \in {j \in 1 .. Len(list) : list[j].id = id}}
Last(list) == list[Len(list)]
\* The lists document in the store.
HasDocument == HasItem(localStorage, STORAGE_KEYS.USER_BOOKS)

\* C1: every book id is in at most one of the three lists, after any
\* sequence of addBookToList, removeBookFromList and moveBookToList calls.
C1_AtMostOneList == \A id \in BookIds : Cardinality(ListsOf(userBooks, id)) <= 1

\* A moveBookToList call with bookId in toListName already.
MoveIntoOwnList ==
  /\ call.op = "move" /\ call.to \in ListNames
  /\ SomeId(call.pre[call.to], call.book.id)

\* C2, as claimed: moveBookToList with bookId already in toListName returns
\* true whatever fromListName is, and toListName keeps its length and holds
\* bookId once.
C2_AlreadyInTargetSucceeds ==
  MoveIntoOwnList
    => /\ call.ret = TRUE
       /\ Len(userBooks[call.to]) = Len(call.pre[call.to])
       /\ Occurrences(userBooks[call.to], call.book.id) = 1

\* The record of bookId is where moveBookToList looks for it: in
\* fromListName when that names a list, else in one of the two caches.
Located ==
  IF call.from \in ListNames THEN SomeId(call.pre[call.from], call.book.id)
  ELSE \/ SomeId(lastSearchResults, call.book.id)
       \/ SomeId(recommendationsCache, call.book.id)

\* C2, amended: moveBookToList with bookId already in toListName returns
\* true exactly when it finds the record of bookId (in fromListName when
\* that names a list, else in the search or the recommendation cache) and
\* false otherwise; either way toListName keeps its length and holds bookId
\* once.
C2_AlreadyInTargetIdempotent ==
  MoveIntoOwnList
    => /\ call.ret = Located
       /\ Len(userBooks[call.to]) = Len(call.pre[call.to])
       /\ Occurrences(userBooks[call.to], call.book.id) = 1

\* C2 witness: a move with fromListName null of a book that was in
\* toListName returned true.
C2_Witness == MoveIntoOwnList /\ call.from = Null /\ call.ret

\* C3: addBookToList returns false and changes neither the lists nor the
\* stored document when the book's id is in any of the three lists.
C3_AddRejectsOwned ==
  (call.op = "add" /\ isAlreadyInAnyList(call.pre, call.book.id))
    => /\ call.ret = FALSE
       /\ userBooks = call.pre
       /\ localStorage = call.preStore

\* C3 witness: an add into a valid list of a book that was in another list
\* and not in the target.
C3_Witness ==
  /\ call.op = "add" /\ call.to \in ListNames
  /\ ~SomeId(call.pre[call.to], call.book.id)
  /\ isAlreadyInAnyList(call.pre, call.book.id)

\* A moveBookToList call from a list that holds bookId to another list.
MoveBetweenLists ==
  /\ call.op = "move"
  /\ call.from \in ListNames /\ call.to \in ListNames /\ call.from # call.to
  /\ SomeId(call.pre[call.from], call.book.id)

\* C4: moveBookToList from a list that holds bookId to another valid list
\* returns true, bookId is gone from fromListName and is the last element
\* of toListName, and the other books of both lists keep their order.
C4_MoveBetweenLists ==
  MoveBetweenLists
    => /\ call.ret = TRUE
       /\ ~SomeId(userBooks[call.from], call.book.id)
       /\ userBooks[call.from] = Others(call.pre[call.from], call.book.id)
       /\ Len(userBooks[call.to]) > 0
       /\ Last(userBooks[call.to]).id = call.book.id
       /\ Others(userBooks[call.to], call.book.id)
            = Others(call.pre[call.to], call.book.id)

\* A moveBookToList call with fromListName null that appended a record.
MoveFromCache ==
  /\ call.op = "move" /\ call.from = Null /\ call.ret
  /\ userBooks # call.pre

\* C5: moveBookToList with fromListName absent appends the record of the
\* search cache when the id is there, also when the recommendation cache
\* holds a record with that id, and the record of the recommendation cache
\* only when the id is not in the search cache.
C5_SearchCacheFirst ==
  MoveFromCache
    => /\ Len(userBooks[call.to]) = Len(call.pre[call.to]) + 1
       /\ IF SomeId(lastSearchResults, call.book.id)
          THEN Last(userBooks[call.to])
                 \in RecordsOf(lastSearchResults, call.book.id)
          ELSE Last(userBooks[call.to])
                 \in RecordsOf(recommendationsCache, call.book.id)

\* C5 witness: such a move of a book whose id is in both caches, under
\* different records.
C5_Witness ==
  /\ MoveFromCache
  /\ SomeId(lastSearchResults, call.book.id)
  /\ SomeId(recommendationsCache, call.book.id)
  /\ RecordsOf(lastSearchResults, call.book.id)
       \cap RecordsOf(recommendationsCache, call.book.id) = {}

\* A moveBookToList call with fromListName null and bookId in no cache.
MoveUnknownBook ==
  /\ call.op = "move" /\ call.from = Null
  /\ ~SomeId(lastSearchResults, call.book.id)
  /\ ~SomeId(recommendationsCache, call.book.id)

\* C6: moveBookToList with fromListName absent and bookId in neither cache
\* returns false and leaves the three lists unchanged.
C6_MoveNotFound == MoveUnknownBook => (call.ret = FALSE /\ userBooks = call.pre)

\* C6 witness: such a move of a real id into a valid list.
C6_Witness ==
  MoveUnknownBook /\ call.book.id \in BookIds /\ call.to \in ListNames

\* A removeBookFromList call for a book that is in listName.
RemovePresent ==
  /\ call.op = "remove" /\ call.from \in ListNames
  /\ SomeId(call.pre[call.from], call.book.id)

\* C7: removeBookFromList of a book that is in listName returns true, the
\* book is gone from listName, the other books of listName keep their
\* order, and the other two lists are unchanged.
C7_RemovePresent ==
  RemovePresent
    => /\ call.ret = TRUE
       /\ ~SomeId(userBooks[call.from], call.book.id)
       /\ userBooks[call.from] = Others(call.pre[call.from], call.book.id)
       /\ OtherListsKept(call.from)

\* C7 witness: such a remove from a list where another book follows the
\* removed one.
C7_Witness ==
  /\ RemovePresent
  /\ FindIndex(call.pre[call.from], call.book.id) < Len(call.pre[call.from])

\* A removeBookFromList call for a book that is not in listName.
RemoveAbsent ==
  /\ call.op = "remove"
  /\ \/ call.from \notin ListNames
     \/ ~SomeId(call.pre[call.from], call.book.id)

AddNewBook ==
  /\ call.op = "add" /\ call.to \in ListNames /\ call.book.id # NoId
  /\ ~isAlreadyInAnyList(call.pre, call.book.id)

\* C9: addBookToList of a book with an id that is in none of the lists, into
\* a valid list, returns true, appends the book as the last element of that
\* list, and leaves the other two lists unchanged.
C9_AddAppends ==
  AddNewBook
    => /\ call.ret = TRUE
       /\ userBooks[call.to] = Append(call.pre[call.to], call.book)
       /\ OtherListsKept(call.to)

\* C9 witness: such an add into a list that held a book already.
C9_Witness == AddNewBook /\ Len(call.pre[call.to]) > 0

\* One of the three list operations returns true.
Succeeded == call.op \in {"add", "remove", "move"} /\ call.ret

\* C10: when addBookToList, removeBookFromList or moveBookToList returns
\* true it has written the lists document, and if the write went through
\* the stored document is the in-memory lists; and as long as no write has
\* failed, the stored document read the way loadAppState reads it is the
\* in-memory lists after any sequence of operations following loadAppState.
C10_StoredEqualsMemory ==
  /\ Succeeded => call.write # "none"
  /\ (Succeeded /\ call.write = "ok")
       => /\ HasDocument
          /\ getFromLocalStorage(localStorage, STORAGE_KEYS.USER_BOOKS)
               = userBooks
  /\ (started /\ writeFailures = 0)
       => LoadedUserBooks(localStorage, EmptyLists) = userBooks

\* C10 witness: a move out of a list into another returns true with its
\* write done; the document it found differs from the one it leaves.
C10_Witness ==
  /\ MoveBetweenLists /\ call.ret /\ call.write = "ok"
  /\ HasItem(call.preStore, STORAGE_KEYS.USER_BOOKS)
  /\ call.preStore # localStorage

\* ---------------------------------------------- claims on the engine
\* A claim about a regeneration is stated on the state in which it resolves:
\* step.resolved is the batch with what its queries came back with, the
\* lists are those the filter read, step.previousCache the cache it found.
Resolved == call.op = "resolve"
\* A query failed, a query was answered.
HasFailed(reply) == reply.state \notin {"pending", "fulfilled"}
WasAnswered(reply) == reply.state = "fulfilled"
\* What the queries returned, in the order the queries were built.
RECURSIVE Returned(_)
Returned(replies) ==
  IF replies = <<>> THEN <<>>
  ELSE (IF WasAnswered(Head(replies)) THEN Head(replies).books ELSE <<>>)
         \o Returned(Tail(replies))
\* The ids of a sequence of volumes.
IdsOf(list) == {list[i].id : i \in 1 .. Len(list)}
\* What the queries of the batch that resolves returned.
Merged == Returned(step.resolved.replies)
\* A returned volume that can be recommended: it has an id, a descriptive
\* block and a cover image.
Presentable(book) ==
  /\ book.id # NoId
  /\ book.volumeInfo # NoInfo
  /\ \/ "thumbnail" \in book.volumeInfo.imageLinks
     \/ "smallThumbnail" \in book.volumeInfo.imageLinks
\* The recommendation cache in the store.
StoredCache ==
  getFromLocalStorage(localStorage, STORAGE_KEYS.RECOMMENDATIONS_CACHE)
NoTwoAlike(list) ==
  \A i, j \in 1 .. Len(list) : list[i].id = list[j].id => i = j

\* C11: the list generateRecommendations commits to the cache holds no book
\* whose id is in one of the three reading lists at the moment of the
\* commit, whatever the queries returned.
C11_NoOwnedBookCommitted ==
  Resolved
    => /\ \A i \in 1 .. Len(recommendationsCache) :
            ~isAlreadyInAnyList(userBooks, recommendationsCache[i].id)
       /\ StoredCache = recommendationsCache

\* C11 witness: a regeneration resolves with books committed, and a query
\* had returned a presentable book that is in a list other than readBooks.
C11_Witness ==
  /\ Resolved /\ Len(recommendationsCache) > 0
  /\ \E i \in 1 .. Len(Returned(step.resolved.replies)) :
       LET book == Returned(step.resolved.replies)[i]
       IN /\ Presentable(book)
          /\ \/ SomeId(userBooks["wantToRead"], book.id)
             \/ SomeId(userBooks["currentlyReading"], book.id)

\* The first entry with an id in a sequence.
FirstWithId(list, id) ==
  list[CHOOSE i \in 1 .. Len(list) :
         /\ list[i].id = id
         /\ \A j \in 1 .. (i - 1) : list[j].id # id]
\* The first presentable entry with an id in a sequence.
FirstPresentable(list, id) ==
  list[CHOOSE i \in 1 .. Len(list) :
         /\ list[i].id = id /\ Presentable(list[i])
         /\ \A j \in 1 .. (i - 1) : ~(list[j].id = id /\ Presentable(list[j]))]

\* C12, as claimed: the committed list holds no two books with one id, and
\* the entry it holds of an id is the first entry with that id in the merged
\* sequence, the results being concatenated in the order of the queries.
C12_FirstInMergedKept ==
  Resolved
    => /\ NoTwoAlike(recommendationsCache)
       /\ \A i \in 1 .. Len(recommendationsCache) :
            recommendationsCache[i] =
              FirstWithId(Returned(step.resolved.replies),
                          recommendationsCache[i].id)

\* C12, amended: the committed list holds no two books with one id, and the
\* entry it holds of an id is the first entry with that id in the merged
\* sequence that has a descriptive block and a cover image.
C12_FirstPresentableKept ==
  Resolved
    => /\ NoTwoAlike(recommendationsCache)
       /\ \A i \in 1 .. Len(recommendationsCache) :
            /\ recommendationsCache[i].id
                 \in IdsOf(Returned(step.resolved.replies))
            /\ recommendationsCache[i] =
                 FirstPresentable(Returned(step.resolved.replies),
                                  recommendationsCache[i].id)

\* C12 witness: two queries returned different presentable records of one
\* id, and the committed list holds that id.
C12_Witness ==
  /\ Resolved /\ Len(step.resolved.replies) = 2
  /\ \E i \in 1 .. Len(step.resolved.replies[1].books) :
       \E j \in 1 .. Len(step.resolved.replies[2].books) :
         LET one == step.resolved.replies[1].books[i]
             other == step.resolved.replies[2].books[j]
         IN /\ one.id = other.id /\ one # other
            /\ Presentable(one) /\ Presentable(other)
            /\ SomeId(recommendationsCache, one.id)

\* The two sort keys of a volume, an absent one counting as 0.
Rating(book) ==
  IF book.volumeInfo.averageRating = Missing THEN 0
  ELSE book.volumeInfo.averageRating
Count(book) ==
  IF book.volumeInfo.ratingsCount = Missing THEN 0
  ELSE book.volumeInfo.ratingsCount
\* Where the presentable entry of an id first is in a sequence.
PlaceIn(list, id) ==
  CHOOSE i \in 1 .. Len(list) :
    /\ list[i].id = id /\ Presentable(list[i])
    /\ \A j \in 1 .. (i - 1) : ~(list[j].id = id /\ Presentable(list[j]))
\* a is ranked before b: higher rating, or the same rating and more ratings,
\* or the same in both and earlier among the returned books.
RankedBefore(a, b, list) ==
  \/ Rating(a) > Rating(b)
  \/ Rating(a) = Rating(b) /\ Count(a) > Count(b)
  \/ /\ Rating(a) = Rating(b) /\ Count(a) = Count(b)
     /\ PlaceIn(list, a.id) < PlaceIn(list, b.id)

\* C13: the committed list is ordered by averageRating descending (absent:
\* 0), ties by ratingsCount descending (absent: 0), and books equal on both
\* keep the order they were returned in; books rated (4.5,100), (4.5,50),
\* (5.0,10) are committed as 5.0/10, 4.5/100, 4.5/50.
C13_RankedByRatingThenCount ==
  Resolved
    => /\ \A i, j \in 1 .. Len(recommendationsCache) :
            i < j => RankedBefore(recommendationsCache[i],
                                  recommendationsCache[j], Merged)
       /\ (Merged = <<p1, p2, p3>> /\ userBooks = EmptyLists)
            => recommendationsCache = <<p3, p1, p2>>

\* C13 witness: the queries returned (4.5,100), (4.5,50), (5.0,10) in that
\* order and the three books are committed.
C13_Witness ==
  /\ Resolved /\ Merged = <<p1, p2, p3>>
  /\ Len(recommendationsCache) = 3

\* The ids the filter keeps: those of the returned presentable books that
\* are in no list.
KeptIds ==
  {id \in IdsOf(Merged) :
     /\ ~isAlreadyInAnyList(userBooks, id)
     /\ \E i \in 1 .. Len(Merged) : Merged[i].id = id /\ Presentable(Merged[i])}

\* C14: after a regeneration the cache holds at most 10 books, the first 10
\* (or all) of the ranked filtered sequence, and nothing of what it held
\* before: the previous content is replaced, not merged.
C14_TopTenReplacesCache ==
  Resolved
    => /\ Len(recommendationsCache) <= 10
       /\ Len(recommendationsCache) =
            (IF Cardinality(KeptIds) < 10 THEN Cardinality(KeptIds) ELSE 10)
       /\ IdsOf(recommendationsCache) \subseteq KeptIds
       /\ \A i \in 1 .. Len(recommendationsCache) :
            /\ recommendationsCache[i] \in Range(Merged)
            /\ \A id \in KeptIds \ IdsOf(recommendationsCache) :
                 RankedBefore(recommendationsCache[i],
                              FirstPresentable(Merged, id), Merged)
       /\ StoredCache = recommendationsCache

\* C14 witness: a regeneration with more than 10 books to keep resolves on
\* a cache that held a book it does not keep.
C14_Witness ==
  /\ Resolved /\ Cardinality(KeptIds) > 10
  /\ \E i \in 1 .. Len(step.previousCache) :
       step.previousCache[i].id \notin KeptIds

\* The queries of the batch that resolves.
Replies == step.resolved.replies
SomeFailed == \E i \in 1 .. Len(Replies) : HasFailed(Replies[i])
SomeAnswered == \E i \in 1 .. Len(Replies) : WasAnswered(Replies[i])
\* The committed list is what the filter keeps of the returned books, up to
\* the first 10, in memory and in the store.
CommittedKept ==
  /\ IdsOf(recommendationsCache) \subseteq KeptIds
  /\ NoTwoAlike(recommendationsCache)
  /\ Len(recommendationsCache) =
       (IF Cardinality(KeptIds) < 10 THEN Cardinality(KeptIds) ELSE 10)
  /\ StoredCache = recommendationsCache

\* C15: when some but not all queries of a regeneration fail, each failed
\* query contributes nothing and the batch is not aborted: the books the
\* other queries returned are filtered, ranked, truncated and committed.
C15_PartialFailureCommits ==
  (Resolved /\ SomeFailed /\ SomeAnswered)
    => /\ \A i \in 1 .. Len(Replies) :
            HasFailed(Replies[i]) => Replies[i].books = <<>>
       /\ CommittedKept
       /\ \A i, j \in 1 .. Len(recommendationsCache) :
            i < j => RankedBefore(recommendationsCache[i],
                                  recommendationsCache[j], Merged)

\* C15 witness: a regeneration resolves with one query failed, one
\* answered, and books committed.
C15_Witness ==
  /\ Resolved /\ SomeFailed /\ SomeAnswered
  /\ Len(recommendationsCache) > 0

\* Every query of the batch that resolves has failed.
AllFailed ==
  /\ Resolved
  /\ \A i \in 1 .. Len(Replies) : HasFailed(Replies[i])

\* C16: when every query of a regeneration fails the regeneration still
\* commits: the cache, in memory and in the store, is the empty sequence,
\* and the region shows no error.
C16_AllFailedCommitsEmpty ==
  AllFailed
    => /\ recommendationsCache = <<>>
       /\ StoredCache = <<>>
       /\ recommendationsList.kind # "error"

\* C16 witness: both queries of a regeneration have failed, and the cache
\* held books before.
C16_Witness ==
  /\ AllFailed /\ Len(Replies) = 2
  /\ Len(step.previousCache) > 0

\* C17: a regeneration whose queries all complete and whose filtered result
\* holds at least one book ends with those books shown in the
\* recommendations region and no error message there.
C17_BooksShownWithoutError ==
  (Resolved /\ ~SomeFailed /\ Len(recommendationsCache) > 0)
    => /\ recommendationsList.kind = "cards"
       /\ recommendationsList.books = recommendationsCache

\* C18: all the queries of a regeneration are issued before any result is
\* processed, and filter, rank and commit run only when every issued query
\* has completed or failed: no batch with a query outstanding overwrites
\* the cache.
C18_CommitAfterEveryQuery ==
  /\ \A b \in 1 .. Len(batches) :
       Len(batches[b].replies) = Len(batches[b].queries)
  /\ step.started = 1
       => /\ Len(batches) > 0
          /\ \A i \in 1 .. Len(Last(batches).replies) :
               Last(batches).replies[i] = Pending
          /\ recommendationsCache = step.previousCache
  /\ Resolved
       => /\ Len(Replies) = Len(step.resolved.queries)
          /\ \A i \in 1 .. Len(Replies) :
               HasFailed(Replies[i]) \/ WasAnswered(Replies[i])

\* C18 witness: a batch of two queries resolves, both answered, and the
\* cache changes.
C18_Witness ==
  /\ Resolved /\ Len(Replies) = 2 /\ ~SomeFailed
  /\ recommendationsCache # step.previousCache

\* C19: a regeneration started while another is in flight neither cancels
\* it nor waits for it, and each overwrites the cache with its own result
\* when it resolves, whatever its place among those in flight: the cache
\* holds the result of the batch that resolved last.
C19_LastResolvedWins ==
  /\ step.started = 1 => Len(batches) = step.inFlight + 1
  /\ Resolved => (Len(batches) = step.inFlight - 1 /\ CommittedKept)

\* C19 witness: of two batches in flight the one started last resolves
\* first and changes the cache; the other is still in flight.
C19_Witness ==
  /\ Resolved /\ step.inFlight = 2 /\ step.place = 2
  /\ Len(batches) = 1
  /\ recommendationsCache # step.previousCache

\* A handler's list operation returned true.
Mutated == call.op \in {"add", "move", "remove"} /\ call.ret
\* It added to readBooks or removed from it: an add to readBooks, a remove
\* from readBooks, a move with source or target readBooks.
ChangesReadBooks ==
  \/ call.op = "add" /\ call.to = "readBooks"
  \/ call.op = "remove" /\ call.from = "readBooks"
  \/ call.op = "move" /\ (call.from = "readBooks" \/ call.to = "readBooks")

\* C20: a successful list mutation made through the handlers starts exactly
\* one regeneration when it adds to or removes from readBooks, and none
\* otherwise.
C20_RegeneratesOnReadBooksChange ==
  Mutated => step.started = (IF ChangesReadBooks THEN 1 ELSE 0)

\* C20 witness: a move out of readBooks into another list succeeded and
\* started a regeneration.
C20_Witness ==
  /\ Mutated /\ call.op = "move"
  /\ call.from = "readBooks" /\ call.to = "wantToRead"
  /\ step.started = 1

\* ------------------------------------------ claims on the queries
\* A claim about the queries of a regeneration is stated on the state in
\* which generateRecommendations reaches its await: the batch started last
\* holds the queries, userBooks.readBooks is the list that was scanned.
Started == step.started = 1
Issued == batches[Len(batches)].queries
\* The concatenation of a sequence of sequences.
RECURSIVE Flat(_)
Flat(lists) == IF lists = <<>> THEN <<>> ELSE Head(lists) \o Flat(Tail(lists))
\* The genres and the authors of the books read, as the scan meets them.
GenresMet ==
  Flat([i \in 1 .. Len(userBooks.readBooks) |->
          IF userBooks.readBooks[i].volumeInfo = NoInfo THEN <<>>
          ELSE userBooks.readBooks[i].volumeInfo.categories])
AuthorsMet ==
  Flat([i \in 1 .. Len(userBooks.readBooks) |->
          IF userBooks.readBooks[i].volumeInfo = NoInfo THEN <<>>
          ELSE userBooks.readBooks[i].volumeInfo.authors])
\* The keywords of a text: its words in lower case that have more than
\* three letters and are no stop word.
Lowered(text) == [i \in 1 .. Len(text) |-> toLowerCase(text[i])]
Meaningful(text) ==
  SelectSeq(Lowered(text), LAMBDA w : Len(w) > 3 /\ w \notin StopWords)
KeywordsMet ==
  Flat([i \in 1 .. Len(userBooks.readBooks) |->
          IF userBooks.readBooks[i].volumeInfo = NoInfo THEN <<>>
          ELSE Meaningful(userBooks.readBooks[i].volumeInfo.title)
                 \o Meaningful(userBooks.readBooks[i].volumeInfo.description)])
\* Where a value is met first, and how many distinct values are met up to
\* there.
FirstAt(met, v) ==
  CHOOSE i \in 1 .. Len(met) : met[i] = v /\ \A j \in 1 .. (i - 1) : met[j] # v
Discovery(met, v) ==
  Cardinality({w \in Range(met) : FirstAt(met, w) <= FirstAt(met, v)})
\* The number of distinct values met, up to a limit.
UpTo(met, limit) ==
  IF Cardinality(Range(met)) < limit THEN Cardinality(Range(met)) ELSE limit
NothingExtracted == GenresMet = <<>> /\ AuthorsMet = <<>> /\ KeywordsMet = <<>>

\* C21: generateRecommendations issues the query "bestsellers fiction" if
\* and only if no genre, author or keyword was extracted from readBooks,
\* and then it is the only query; with readBooks empty exactly that one
\* query is issued.
C21_FallbackIffNoSignal ==
  Started
    => /\ (GeneralQuery \in Range(Issued)) <=> NothingExtracted
       /\ NothingExtracted => Issued = <<GeneralQuery>>
       /\ userBooks.readBooks = <<>> => Issued = <<GeneralQuery>>

\* C21 witness: the fallback is issued for a readBooks list that holds
\* books, none of which gives a genre, an author or a keyword.
C21_Witness ==
  /\ Started /\ Issued = <<GeneralQuery>>
  /\ Len(userBooks.readBooks) = 2

\* C22: between 1 and 6 queries are issued: a subject query for each of the
\* first 3 distinct genres, then an inauthor query for each of the first 2
\* distinct authors, then at most one query of the first 3 distinct
\* keywords, first meaning first met while readBooks is scanned in order.
C22_QueriesInDiscoveryOrder ==
  Started
    => LET genres == UpTo(GenresMet, 3)
           authors == UpTo(AuthorsMet, 2)
           keywords == UpTo(KeywordsMet, 3)
           combined == IF keywords > 0 THEN 1 ELSE 0
       IN /\ Len(Issued) >= 1 /\ Len(Issued) <= 6
          /\ ~NothingExtracted => Len(Issued) = genres + authors + combined
          /\ \A g \in Range(GenresMet) :
               Discovery(GenresMet, g) <= 3
                 => Issued[Discovery(GenresMet, g)] = Query("subject:", <<g>>)
          /\ \A a \in Range(AuthorsMet) :
               Discovery(AuthorsMet, a) <= 2
                 => Issued[genres + Discovery(AuthorsMet, a)]
                      = Query("inauthor:", <<a>>)
          /\ keywords > 0
               => /\ Issued[Len(Issued)].prefix = ""
                  /\ Len(Issued[Len(Issued)].terms) = keywords
                  /\ \A k \in Range(KeywordsMet) :
                       Discovery(KeywordsMet, k) <= 3
                         => Issued[Len(Issued)].terms[Discovery(KeywordsMet, k)] = k

\* C22 witness: six queries are issued, and a fourth genre, a third author
\* and a fourth keyword were met, one genre and one keyword twice.
C22_Witness ==
  /\ Started /\ Len(Issued) = 6
  /\ Cardinality(Range(GenresMet)) > 3 /\ Len(GenresMet) > Cardinality(Range(GenresMet))
  /\ Cardinality(Range(AuthorsMet)) > 2
  /\ Cardinality(Range(KeywordsMet)) > 3 /\ Len(KeywordsMet) > Cardinality(Range(KeywordsMet))

\* ------------------------------------------ claims on the store and lookups
\* initializeApp has run and returns; the page was loaded again.
Initialized == call.op \in {"load", "reopen"}
Reopened == call.op = "reopen"

\* C23: the lists that saveUserBooks persisted come back from loadAppState
\* with the same books in the same order, for each of the three lists.
C23_ListsRoundTrip ==
  (Reopened /\ HasItem(call.preStore, STORAGE_KEYS.USER_BOOKS))
    => \A l \in ListNames :
         /\ Len(userBooks[l]) = Len(call.pre[l])
         /\ \A i \in 1 .. Len(userBooks[l]) : userBooks[l][i] = call.pre[l][i]

\* C23 witness: the page is loaded again with two books in one list and a
\* book in another, and the document it reads is not the one the visit
\* started with.
C23_Witness ==
  /\ Reopened
  /\ \E l, m \in ListNames :
       l # m /\ Len(call.pre[l]) >= 2 /\ Len(call.pre[m]) >= 1
  /\ \A doc \in StoredAtStart : call.preStore # Store(doc)

\* What the store holds under a key, and the lists it holds.
StoredUnder(key) == JSONparse(localStorage[key])
StoredList(l) ==
  IF HasDocument /\ l \in DOMAIN StoredUnder(STORAGE_KEYS.USER_BOOKS)
  THEN StoredUnder(STORAGE_KEYS.USER_BOOKS)[l]
  ELSE <<>>
StoredArray(key) ==
  IF HasItem(localStorage, key) THEN StoredUnder(key) ELSE <<>>
\* The cached recommendations that are in no list.
NotListed(cache) ==
  SelectSeq(cache, LAMBDA b : ~isAlreadyInAnyList(userBooks, b.id))

\* C24: initializeApp loads the lists, the search cache and the
\* recommendation cache from the store, each empty when its key (or the list
\* in the lists document) is missing, draws the recommendations from the
\* loaded cache, issues no query and starts no regeneration.
C24_StartupLoadsWithDefaults ==
  Initialized
    => /\ \A l \in ListNames : userBooks[l] = StoredList(l)
       /\ lastSearchResults = StoredArray(STORAGE_KEYS.LAST_SEARCH_RESULTS)
       /\ recommendationsCache =
            StoredArray(STORAGE_KEYS.RECOMMENDATIONS_CACHE)
       /\ localStorage = call.preStore
       /\ IF recommendationsCache = <<>>
          THEN recommendationsList = InitialMessage
          ELSE IF NotListed(recommendationsCache) = <<>>
               THEN recommendationsList.kind = "message"
               ELSE /\ recommendationsList.kind = "cards"
                    /\ recommendationsList.books =
                         NotListed(recommendationsCache)
       /\ batches = <<>> /\ searching = <<>> /\ step.started = 0

\* C24 witness: the first load of a visit finds a lists document without
\* its readBooks list and a recommendation cache, and shows books of it.
C24_Witness ==
  /\ call.op = "load" /\ HasDocument
  /\ "readBooks" \notin DOMAIN StoredUnder(STORAGE_KEYS.USER_BOOKS)
  /\ Len(recommendationsCache) > 0
  /\ recommendationsList.kind = "cards"

\* C28: getBookListStatus(bookId) returns the name of a list that holds
\* bookId, and null exactly when no list holds it; after a successful
\* addBookToList(book, L) it returns L for book.id.
C28_StatusNamesHoldingList ==
  /\ call.op = "status"
       => /\ call.result.list = Null <=> ListsOf(userBooks, call.book.id) = {}
          /\ call.result.list # Null
               => call.result.list \in ListsOf(userBooks, call.book.id)
  /\ (call.op = "add" /\ call.ret)
       => getBookListStatus(userBooks, call.book.id) = call.to

\* C28 witness: getBookListStatus is asked for a book of wantToRead while
\* currentlyReading holds another book.
C28_Witness ==
  /\ call.op = "status"
  /\ SomeId(userBooks["wantToRead"], call.book.id)
  /\ ~SomeId(userBooks["currentlyReading"], call.book.id)
  /\ Len(userBooks["currentlyReading"]) > 0

\* The records the lists hold under an id.
ListedRecords(id) ==
  UNION {RecordsOf(userBooks[l], id) : l \in ListNames}

\* C29: getBookById(bookId) returns the record of the reading lists when
\* the id is in one of them, else the record of the search cache, else the
\* record of the recommendation cache, else null; a record of a list goes
\* before a record with the same id in a cache.
C29_ListsThenCaches ==
  call.op = "byId"
    => IF isAlreadyInAnyList(userBooks, call.book.id)
       THEN call.result \in ListedRecords(call.book.id)
       ELSE IF SomeId(lastSearchResults, call.book.id)
            THEN call.result \in RecordsOf(lastSearchResults, call.book.id)
       ELSE IF SomeId(recommendationsCache, call.book.id)
            THEN call.result \in RecordsOf(recommendationsCache, call.book.id)
       ELSE call.result = NoBook

\* C29 witness: getBookById is asked for an id that a list and both caches
\* hold, the list under another record than the search cache.
C29_Witness ==
  /\ call.op = "byId"
  /\ isAlreadyInAnyList(userBooks, call.book.id)
  /\ SomeId(lastSearchResults, call.book.id)
  /\ SomeId(recommendationsCache, call.book.id)
  /\ ListedRecords(call.book.id)
       \cap RecordsOf(lastSearchResults, call.book.id) = {}

\* One of the three list operations called saveUserBooks and setItem threw.
WriteFailed == call.op \in {"add", "remove", "move"} /\ call.write = "failed"

\* C25: when the store write fails during addBookToList, removeBookFromList
\* or moveBookToList the failure is not propagated: the lists in memory are
\* changed as the operation changes them, the call returns true, the store
\* keeps what it held, and a later operation whose write goes through
\* stores the lists in memory.
C25_WriteFailureNotPropagated ==
  /\ WriteFailed
       => /\ call.ret = TRUE
          /\ localStorage = call.preStore
          /\ call.op = "add"
               => /\ userBooks[call.to] = Append(call.pre[call.to], call.book)
                  /\ OtherListsKept(call.to)
          /\ call.op = "remove"
               => /\ userBooks[call.from] = Others(call.pre[call.from], call.book.id)
                  /\ Len(userBooks[call.from]) < Len(call.pre[call.from])
                  /\ OtherListsKept(call.from)
          /\ call.op = "move"
               => /\ SomeId(userBooks[call.to], call.book.id)
                  /\ (call.from \in ListNames /\ call.from # call.to)
                       => ~SomeId(userBooks[call.from], call.book.id)
  /\ (Succeeded /\ call.write = "ok" /\ writeFailures > 0)
       => /\ HasDocument
          /\ JSONparse(localStorage[STORAGE_KEYS.USER_BOOKS]) = userBooks

\* C25 witness: the write of a move out of a list into another fails; the
\* lists in memory have changed and the document in the store is not them.
C25_Witness ==
  /\ WriteFailed /\ MoveBetweenLists
  /\ userBooks # call.pre
  /\ HasDocument
  /\ JSONparse(localStorage[STORAGE_KEYS.USER_BOOKS]) # userBooks

\* ------------------------------------------------- claims on the search
\* A search has settled; the form was submitted with nothing to search for.
Searched == call.op = "searched"
SubmittedEmpty == call.op = "submit" /\ call.arg.query = ""
SearchCacheKept ==
  /\ lastSearchResults = step.previousSearch
  /\ localStorage = call.preStore

\* C26: a search that succeeds replaces the search cache with its own
\* results, in memory and in the store, and the stored last query with its
\* own query; a search that fails, and a submit with an empty query, leave
\* the search cache and the last query as they were.
C26_SearchReplacesCache ==
  /\ (Searched /\ call.ret)
       => /\ lastSearchResults = call.result.books
          /\ StoredArray(STORAGE_KEYS.LAST_SEARCH_RESULTS) = call.result.books
          /\ HasItem(localStorage, STORAGE_KEYS.LAST_SEARCH_QUERY)
          /\ StoredUnder(STORAGE_KEYS.LAST_SEARCH_QUERY) = call.arg.query
  /\ (Searched /\ ~call.ret) => SearchCacheKept
  /\ SubmittedEmpty => SearchCacheKept

\* C26 witness: a search succeeds on a cache that held other books, under
\* another last query, with results that are not empty.
C26_Witness ==
  /\ Searched /\ call.ret
  /\ Len(step.previousSearch) > 0 /\ Len(call.result.books) > 0
  /\ \A i \in 1 .. Len(step.previousSearch) :
       step.previousSearch[i] \notin Range(call.result.books)
  /\ HasItem(call.preStore, STORAGE_KEYS.LAST_SEARCH_QUERY)
  /\ JSONparse(call.preStore[STORAGE_KEYS.LAST_SEARCH_QUERY]) # call.arg.query

\* --------------------------------------- claims on the handlers' failures
\* The list operation of a handler returned false.
HandlerFailed == call.op \in {"add", "move", "remove"} /\ ~call.ret

\* C27: when addBookToList, moveBookToList or removeBookFromList returns
\* false in its handler, the handler raises an alert and does nothing
\* else: the lists are not drawn again and no regeneration is started,
\* whatever list names it was given.
C27_FailureAlertsOnly ==
  HandlerFailed
    => /\ step.alert # ""
       /\ ~step.rendered
       /\ step.started = 0
       /\ userBooks = call.pre
       /\ localStorage = call.preStore

\* C27 witness: a move into readBooks fails while a regeneration is in
\* flight.
C27_Witness ==
  /\ HandlerFailed /\ call.op = "move" /\ call.to = "readBooks"
  /\ Len(batches) > 0

\* ------------------------------------------------ claims on the cover URL
\* The identifiers of the block getOpenLibraryCover was called with, and
\* those of a type.
Listed ==
  IF call.arg.volumeInfo = NoInfo
       \/ "industryIdentifiers" \notin DOMAIN call.arg.volumeInfo
  THEN {}
  ELSE Range(call.arg.volumeInfo.industryIdentifiers)
OfType(type) == {id \in Listed : id.type = type}
\* The OTHER identifiers with the OCLC prefix, and what follows "OCLC:" in
\* one.
WithOCLC ==
  {id \in OfType("OTHER") :
     Len(id.identifier) >= 5 /\ SubSeq(id.identifier, 1, 5) = OCLCColon}
Number(id) == SubSeq(id.identifier, 6, Len(id.identifier))
Size == IF call.arg.size = NoSize THEN "M" ELSE call.arg.size

\* C30: getOpenLibraryCover builds the URL from the ISBN-13 if the record
\* has one, else from the ISBN-10, else from an OTHER identifier with the
\* OCLC prefix, the "OCLC:" stripped, and returns null when the record has
\* none of the three, whatever the order of the identifiers in the record.
C30_CoverByPriority ==
  call.op = "cover"
    => IF OfType("ISBN_13") # {}
       THEN \E id \in OfType("ISBN_13") :
              call.result = CoverUrl("isbn", id.identifier, Size)
       ELSE IF OfType("ISBN_10") # {}
            THEN \E id \in OfType("ISBN_10") :
                   call.result = CoverUrl("isbn", id.identifier, Size)
       ELSE IF WithOCLC # {}
            THEN \E id \in WithOCLC :
                   call.result = CoverUrl("oclc", Number(id), Size)
       ELSE call.result = NoCover

\* C30 witness: the record lists its OCLC number first, its ISBN-10 next
\* and its ISBN-13 last.
C30_Witness ==
  /\ call.op = "cover" /\ Listed # {}
  /\ LET ids == call.arg.volumeInfo.industryIdentifiers
     IN /\ Len(ids) = 3
        /\ ids[1] \in WithOCLC
        /\ ids[2].type = "ISBN_10"
        /\ ids[3].type = "ISBN_13"

\* --------------------------------------------- claims on the lists' frame
\* A moveBookToList call whose fromListName is its toListName and holds
\* bookId.
MoveWithinList ==
  /\ call.op = "move" /\ call.from \in ListNames /\ call.from = call.to
  /\ SomeId(call.pre[call.from], call.book.id)

\* C31: the stored lists having no id twice in one list, no list holds an
\* id twice after any sequence of addBookToList, removeBookFromList and
\* moveBookToList calls; a moveBookToList call whose fromListName is its
\* toListName keeps the book once (as the last element of the list).
C31_NoDuplicateWithinList ==
  /\ \A l \in ListNames : \A id \in BookIds :
       Occurrences(userBooks[l], id) <= 1
  /\ MoveWithinList
       => /\ call.ret = TRUE
          /\ Occurrences(userBooks[call.to], call.book.id) = 1
          /\ Last(userBooks[call.to]).id = call.book.id

\* C31 witness: a book that was first of two in its list was moved to the
\* same list; and it is in another list as well.
C31_Witness ==
  /\ MoveWithinList
  /\ Len(call.pre[call.to]) = 2
  /\ call.pre[call.to][1].id = call.book.id
  /\ Cardinality(ListsOf(userBooks, call.book.id)) = 2

\* A moveBookToList call that returned false.
MoveFailed == call.op = "move" /\ ~call.ret

C35_StoredQueryMatchesResults ==
  /\ (HasItem(localStorage, STORAGE_KEYS.LAST_SEARCH_QUERY)
        /\ HasItem(localStorage, STORAGE_KEYS.LAST_SEARCH_RESULTS))
       => StoredUnder(STORAGE_KEYS.LAST_SEARCH_RESULTS)
            \in SearchReplies[StoredUnder(STORAGE_KEYS.LAST_SEARCH_QUERY)]
  /\ (Searched /\ call.ret)
       => /\ HasItem(localStorage, STORAGE_KEYS.LAST_SEARCH_QUERY)
          /\ HasItem(localStorage, STORAGE_KEYS.LAST_SEARCH_RESULTS)
          /\ StoredUnder(STORAGE_KEYS.LAST_SEARCH_QUERY) = call.arg.query
          /\ StoredUnder(STORAGE_KEYS.LAST_SEARCH_RESULTS) = call.result.books

\* C35 witness: of two searches in flight the one submitted last settled
\* first, with books, the other asking for something else; the store held
\* the query of a third search before.
C35_Witness ==
  /\ Searched /\ call.ret
  /\ step.inFlight = 2 /\ step.place = 2
  /\ Len(searching) = 1 /\ searching[1] # call.arg.query
  /\ call.result.books # <<>>
  /\ HasItem(call.preStore, STORAGE_KEYS.LAST_SEARCH_QUERY)
  /\ JSONparse(call.preStore[STORAGE_KEYS.LAST_SEARCH_QUERY]) # call.arg.query

\* The lists the regeneration that resolved was started with, and the ids
\* put in a list since.
ListsAtStart == step.resolved.lists
AddedInFlight ==
  getAllUserBookIds(userBooks) \ getAllUserBookIds(ListsAtStart)

\* C34: a regeneration issues the queries of readBooks as it is when
\* generateRecommendations is called and keeps them, whatever becomes of
\* readBooks while they are in flight; what it commits is filtered with the
\* ids listed when it resolves, so a book put in a list while the queries
\* were in flight is not committed.
C34_OwnedReadAfterJoin ==
  /\ \A b \in 1 .. Len(batches) :
       batches[b].queries = searchQueries(batches[b].lists.readBooks)
  /\ Resolved
       => /\ step.resolved.queries = searchQueries(ListsAtStart.readBooks)
          /\ recommendationsCache
               = finalRecommendations(step.resolved.replies, userBooks)
          /\ IdsOf(recommendationsCache) \cap AddedInFlight = {}

\* C34 witness: a book the catalog returned with a cover was put in a list
\* while the queries were in flight, the book that gave the queries was
\* removed from readBooks meanwhile, and another book was committed.
C34_Witness ==
  /\ Resolved
  /\ \E i \in 1 .. Len(Merged) :
       Presentable(Merged[i]) /\ Merged[i].id \in AddedInFlight
  /\ searchQueries(userBooks.readBooks) # step.resolved.queries
  /\ recommendationsCache # <<>>

\* What the store holds under a key (Nothing: no item).
ItemOf(ls, key) == IF HasItem(ls, key) THEN ls[key] ELSE Nothing
\* The three components, each in memory and in the store, after a step as
\* before it.
ListsKept ==
  /\ userBooks' = userBooks
  /\ ItemOf(localStorage', STORAGE_KEYS.USER_BOOKS)
       = ItemOf(localStorage, STORAGE_KEYS.USER_BOOKS)
SearchComponentKept ==
  /\ lastSearchResults' = lastSearchResults
  /\ ItemOf(localStorage', STORAGE_KEYS.LAST_SEARCH_RESULTS)
       = ItemOf(localStorage, STORAGE_KEYS.LAST_SEARCH_RESULTS)
  /\ ItemOf(localStorage', STORAGE_KEYS.LAST_SEARCH_QUERY)
       = ItemOf(localStorage, STORAGE_KEYS.LAST_SEARCH_QUERY)
RecommendationCacheKept ==
  /\ recommendationsCache' = recommendationsCache
  /\ ItemOf(localStorage', STORAGE_KEYS.RECOMMENDATIONS_CACHE)
       = ItemOf(localStorage, STORAGE_KEYS.RECOMMENDATIONS_CACHE)
\* The steps of the three kinds: a list operation is called (by its
\* handler, which may start a regeneration after it); a regeneration is
\* started by the button, has one of its queries answered, or resolves; a
\* search is submitted or settles.
ListOperationStep ==
  call.op = "none" /\ call'.op \in {"add", "remove", "move"}
RegenerationStep ==
  \/ call.op = "none" /\ call'.op \in {"generate", "resolve"}
  \/ call' = call /\ batches' # batches
SearchStep == call.op = "none" /\ call'.op \in {"submit", "searched"}

\* C33: a list operation changes neither the search cache nor the
\* recommendation cache, a regeneration neither the lists nor the search
\* cache, a search neither the lists nor the recommendation cache, in
\* memory and in the store.
C33_OwnComponentOnly ==
  [][ /\ ListOperationStep => (SearchComponentKept /\ RecommendationCacheKept)
      /\ RegenerationStep => (ListsKept /\ SearchComponentKept)
      /\ SearchStep => (ListsKept /\ RecommendationCacheKept) ]_vars

\* C33 witness: a regeneration resolves after a search has replaced the
\* search cache and a book has been put in a list, and commits a book.
C33_Witness ==
  /\ Resolved
  /\ recommendationsCache # <<>>
  /\ lastSearchResults = <<n1, rB>>
  /\ SomeId(userBooks["wantToRead"], rB.id)

\* --------------------------------------------- claims on termination
\* This step is the resolution of a batch.
Resolves == call.op = "none" /\ call'.op = "resolve"

\* The batch in flight at place b has the queries it was started with and
\* every reply it has received, as batch has them.
SameFetches(b, batch) ==
  /\ batch.queries = batches[b].queries
  /\ Len(batch.replies) = Len(batch.queries)
  /\ \A i \in 1 .. Len(batches[b].queries) :
       batches[b].replies[i] # Pending
         => batch.replies[i] = batches[b].replies[i]

\* A resolution takes its batch, and no other, out of flight with every
\* query answered once, and writes the cache from these answers alone; any
\* other step of the started page leaves the cache, takes no batch out of
\* flight and issues no query of a batch again.
ResolvesOnce ==
  IF Resolves
  THEN /\ step'.place \in 1 .. Len(batches)
       /\ Len(batches') = Len(batches) - 1
       /\ \A b \in 1 .. Len(batches') :
            batches'[b] = batches[IF b < step'.place THEN b ELSE b + 1]
       /\ SameFetches(step'.place, step'.resolved)
       /\ \A i \in 1 .. Len(step'.resolved.replies) :
            step'.resolved.replies[i] # Pending
       /\ recommendationsCache' =
            finalRecommendations(step'.resolved.replies, userBooks)
       /\ localStorage'[STORAGE_KEYS.RECOMMENDATIONS_CACHE] =
            JSONstringify(STORAGE_KEYS.RECOMMENDATIONS_CACHE,
                          recommendationsCache')
  ELSE started
         => /\ recommendationsCache' = recommendationsCache
            /\ Len(batches') >= Len(batches)
            /\ \A b \in 1 .. Len(batches) : SameFetches(b, batches'[b])

\* C36: every started regeneration eventually overwrites the recommendation
\* cache exactly once, provided each of its queries eventually completes or
\* fails: a batch at place p in flight, or one before it, resolves (places
\* only move down, so the batch itself does), a resolution writes the cache
\* and takes only its batch out of flight, whatever the other batches wait
\* for; no query is issued again after a failure.
C36_EveryRegenerationResolvesOnce ==
  /\ \A p \in 1 .. MaxInFlight :
       (Len(batches) >= p) ~> (call.op = "resolve" /\ step.place <= p)
  /\ [][ResolvesOnce]_vars

\* A batch has resolved, one of its queries having failed, while an older
\* batch still waits for a query.
C36_Witness ==
  /\ call.op = "resolve"
  /\ step.place = 2
  /\ \E i \in 1 .. Len(step.resolved.replies) :
       step.resolved.replies[i] = Caught
  /\ \E i \in 1 .. Len(batches[1].replies) : batches[1].replies[i] = Pending

\* ------------------------------------------------ claims on what is shown
\* The ids of the books a region shows.
ShownIn(region) == IdsOf(region.books)

\* C37: once initializeApp has run, after every handler no book shown in
\* the search results or in the recommendations is in one of the three
\* lists.
C37_NoOwnedBookShown ==
  started
    => (ShownIn(searchResultsDiv) \cup ShownIn(recommendationsList))
         \cap getAllUserBookIds(userBooks) = {}

====
